---- MODULE Spec2Model ----
(***************************************************************************)
(* Price cache service (services/priceCache), price routes and historical  *)
(* portfolio aggregation of the trading simulator backend.                 *)
(*                                                                         *)
(* Time is the value of Date.now() in milliseconds.  Prices are integers.  *)
(* A JavaScript `undefined` cache read is the record Undefined; a Map is a *)
(* function whose DOMAIN is the set of keys it holds.                      *)
(***************************************************************************)
EXTENDS Integers, Sequences, FiniteSets, Bags, TLC

(***************************************************************************)
(* Bounds of the model.                                                    *)
(***************************************************************************)
\* the clock is observed at every sweep instant up to MaxHours sweeps and at
\* NearSteps Step-sized advances after each of them
MaxHours == 2
NearSteps == 2
\* the bulk runs observe the clock at BulkNear Step-sized advances and at the
\* first sweep instant
BulkNear == 1
\* number of lookups that may await their provider call at the same time
MaxCalls == 2
\* provider prices range over 0..MaxPrice (0 is Finnhub's "invalid symbol")
MaxPrice == 1
\* the latency runs observe the clock at MaxWaits advances of Latency
MaxWaits == 2
\* a portfolio has at most MaxHoldings holdings
MaxHoldings == 2
\* the timestamps of history points range over 1..MaxTime
MaxTime == 2
\* at most MaxTrades buy and sell requests are made in a run
MaxTrades == 3

(***************************************************************************)
(* CACHE_CONFIG and the timers of the service.                             *)
(***************************************************************************)
FRESH_DURATION == 5 * 60 * 1000
FRESH_DURATION_CRYPTO == 10 * 60 * 1000
STALE_DURATION == 60 * 60 * 1000
\* period of the setInterval sweep
SWEEP_INTERVAL == 60 * 60 * 1000
\* axios timeout of every provider call
PROVIDER_TIMEOUT == 10000
\* granularity of the modelled clock: the smallest threshold of the service
Step == FRESH_DURATION

(***************************************************************************)
(* Symbols and the CoinGecko mapping.                                      *)
(***************************************************************************)
CRYPTO_MAPPING ==
  [k \in {"BTC", "BTCUSD", "BTCUSDT", "XBT"} |-> "bitcoin"] @@
  [k \in {"ETH", "ETHUSD", "ETHUSDT"} |-> "ethereum"] @@
  [k \in {"BNB", "BNBUSD", "BNBUSDT"} |-> "binancecoin"] @@
  [k \in {"SOL", "SOLUSD", "SOLUSDT"} |-> "solana"] @@
  [k \in {"XRP", "XRPUSD", "XRPUSDT"} |-> "ripple"] @@
  [k \in {"ADA", "ADAUSD", "ADAUSDT"} |-> "cardano"] @@
  [k \in {"DOGE", "DOGEUSD", "DOGEUSDT"} |-> "dogecoin"] @@
  [k \in {"DOT", "DOTUSD", "DOTUSDT"} |-> "polkadot"] @@
  [k \in {"AVAX", "AVAXUSD", "AVAXUSDT"} |-> "avalanche-2"] @@
  [k \in {"LINK", "LINKUSD", "LINKUSDT"} |-> "chainlink"] @@
  [k \in {"UNI", "UNIUSD", "UNIUSDT"} |-> "uniswap"] @@
  [k \in {"LTC", "LTCUSD", "LTCUSDT"} |-> "litecoin"] @@
  [k \in {"ATOM", "ATOMUSD", "ATOMUSDT"} |-> "cosmos"] @@
  [k \in {"TRX", "TRXUSD", "TRXUSDT"} |-> "tron"]

\* String.prototype.toUpperCase on the symbols the model requests
toUpperCase(s) ==
  CASE s = "aapl" -> "AAPL"
    [] s = "btc" -> "BTC"
    [] s = "eth" -> "ETH"
    [] OTHER -> s

\* CRYPTO_MAPPING[symbol.toUpperCase()], "" standing for undefined
coinIdOf(symbol) ==
  IF toUpperCase(symbol) \in DOMAIN CRYPTO_MAPPING
  THEN CRYPTO_MAPPING[toUpperCase(symbol)] ELSE ""

\* the symbols the single-lookup runs request
StockSymbols == {"AAPL"}
CryptoSymbols == {"btc"}

(***************************************************************************)
(* Values.                                                                 *)
(***************************************************************************)
Undefined == [defined |-> FALSE, data |-> [symbol |-> "", price |-> 0], timestamp |-> 0]

\* Map.prototype.get
MapGet(map, key) ==
  IF key \in DOMAIN map
  THEN [defined |-> TRUE, data |-> map[key].data, timestamp |-> map[key].timestamp]
  ELSE Undefined

\* the entry of a key is replaced only by one with a later timestamp
MapSet_KeepNewer(map, key, entry) ==
  IF key \in DOMAIN map /\ map[key].timestamp > entry.timestamp
  THEN map
  ELSE [k \in DOMAIN map \cup {key} |-> IF k = key THEN entry ELSE map[k]]

\* Map.prototype.set
MapSet(map, key, entry) ==
  [k \in DOMAIN map \cup {key} |-> IF k = key THEN entry ELSE map[k]]

\* Map.prototype.delete of every key in keys
MapDelete(map, keys) == [k \in DOMAIN map \ keys |-> map[k]]

EmptyMap == [k \in {} |-> Undefined]

\* Math.floor((now - timestamp) / 1000)
cacheAge(now, timestamp) == (now - timestamp) \div 1000

\* what a provider call can answer
StockResponses ==
  {[status |-> "error", c |-> 0]} \cup {[status |-> "ok", c |-> p] : p \in 0..MaxPrice}
CryptoResponses ==
  {[status |-> "error", found |-> FALSE, usd |-> 0],
   [status |-> "ok", found |-> FALSE, usd |-> 0]}
  \cup {[status |-> "ok", found |-> TRUE, usd |-> p] : p \in 0..MaxPrice}

None == [fn |-> "none"]

Idle == [phase |-> "idle"]

\* Portfolio.js: cashBalance default 100000
StartingBalance == 100000

\* the collections of a registered user who has not traded: the Portfolio
\* document, no Holding (symbol -> [_id, quantity]), no Transaction
NewAccount ==
  [cashBalance |-> StartingBalance, holdings |-> << >>,
   nextId |-> 1, transactions |-> << >>]

VARIABLES
  clock,      \* Date.now()
  nextSweep,  \* the time the setInterval sweep fires next
  cache,      \* cache.stocks, cache.crypto and cache.search: key -> entry
  pending,    \* bag of lookups awaiting their provider call, and of trade
              \* handlers awaiting their next database operation
  bulk,       \* the getBulkPrices invocation in progress, Idle if none
  last,       \* what the latest step delivered to a caller, None if nothing
  agg,        \* the portfolio history request: its holdings, series and answer
  alphaVantageCache,  \* historical.js: cacheKey -> [timestamp, data]
  mongo,      \* the user's Portfolio, Holding and Transaction documents
  responses   \* the responses routes/trade.js has sent, in order

vars == <<clock, nextSweep, cache, pending, bulk, last, agg, alphaVantageCache,
          mongo, responses>>

(***************************************************************************)
(* Provider adapters.                                                      *)
(***************************************************************************)
\* fetchStockPrice: the quote, or a throw on a failed request or a zero price
fetchStockPriceThrows(resp) == resp.status = "error" \/ resp.c = 0
fetchStockPrice(symbol, resp) == [symbol |-> toUpperCase(symbol), price |-> resp.c]

\* fetchCryptoPrice: throws before any request when the symbol has no coin id
fetchCryptoPriceCalls(symbol) == coinIdOf(symbol) # ""
\* the request is sent whatever the symbol
fetchCryptoPriceThrows_NoMappingCheck(symbol, resp) ==
  \/ resp.status = "error"
  \/ ~resp.found

fetchCryptoPriceThrows(symbol, resp) ==
  \/ coinIdOf(symbol) = ""
  \/ resp.status = "error"
  \/ ~resp.found
fetchCryptoPrice(symbol, resp) == [symbol |-> toUpperCase(symbol), price |-> resp.usd]

(***************************************************************************)
(* getStockPrice / getCryptoPrice.                                         *)
(***************************************************************************)
\* one fresh window for both classes
FreshDuration_Global(fn) == FRESH_DURATION

FreshDuration(fn) ==
  IF fn = "getStockPrice" THEN FRESH_DURATION ELSE FRESH_DURATION_CRYPTO

Namespace(fn) == IF fn = "getStockPrice" THEN "stocks" ELSE "crypto"

\* the `cached && (now - cached.timestamp) < FRESH` test of both lookups
IsFresh(fn, cached, now) ==
  cached.defined /\ (now - cached.timestamp) < FreshDuration(fn)

\* the fallback limited to the fresh window
StaleUsable_FreshWindow(fn, cached, now) ==
  IF fn = "getStockPrice"
  THEN cached.defined /\ (now - cached.timestamp) < FRESH_DURATION
  ELSE cached.defined

\* the stock cut-off applied to crypto as well
StaleUsable_CutoffBoth(fn, cached, now) ==
  cached.defined /\ (now - cached.timestamp) < STALE_DURATION

\* the fallback taken without testing that an entry was read
StaleUsable_NoGuard(fn, cached, now) ==
  IF fn = "getStockPrice"
  THEN (now - cached.timestamp) < STALE_DURATION
  ELSE TRUE

\* the fallback reads the cache again after the await
StaleUsable_Reread(fn, cached, now) ==
  /\ cached.defined
  /\ MapGet(cache[Namespace(fn)], cached.data.symbol).defined
  /\ fn = "getStockPrice" => (now - cached.timestamp) < STALE_DURATION

\* the stale-fallback test of the catch block
StaleUsable(fn, cached, now) ==
  IF fn = "getStockPrice"
  THEN cached.defined /\ (now - cached.timestamp) < STALE_DURATION
  ELSE cached.defined

\* what a lookup delivers to its caller: the lookup, the number of provider
\* requests it issued, how its fetch ended ("none" when it fetched nothing),
\* and the value it returned or the throw
Delivered(call, upstream, fetch, outcome, value) ==
  [fn |-> call.fn, symbol |-> call.symbol, now |-> call.now, cached |-> call.cached,
   upstream |-> upstream, fetch |-> fetch, outcome |-> outcome, value |-> value]

CachedValue(cached, now, stale) ==
  [symbol |-> cached.data.symbol, price |-> cached.data.price,
   cached |-> TRUE, stale |-> stale, cacheAge |-> cacheAge(now, cached.timestamp)]

FetchedValue(data) ==
  [symbol |-> data.symbol, price |-> data.price,
   cached |-> FALSE, stale |-> FALSE, cacheAge |-> 0]

NoValue == [symbol |-> "", price |-> 0, cached |-> FALSE, stale |-> FALSE, cacheAge |-> 0]

\* the synchronous first part of a lookup: read the clock and the cache, answer
\* from a fresh entry or start the provider call
StartLookup(fn, symbol) ==
  LET now == clock
      cached == MapGet(cache[Namespace(fn)], toUpperCase(symbol))
      call == [fn |-> fn, symbol |-> symbol, now |-> now, cached |-> cached]
  IN  IF IsFresh(fn, cached, now)
      THEN /\ last' = Delivered(call, 0, "none", "return", CachedValue(cached, now, FALSE))
           /\ UNCHANGED <<clock, nextSweep, cache, pending, bulk, agg, alphaVantageCache, mongo, responses>>
      ELSE /\ BagCardinality(pending) < MaxCalls
           /\ pending' = pending (+) SetToBag({call})
           /\ last' = None
           /\ UNCHANGED <<clock, nextSweep, cache, bulk, agg, alphaVantageCache, mongo, responses>>

getStockPriceStart == \E symbol \in StockSymbols : StartLookup("getStockPrice", symbol)

getCryptoPriceStart == \E symbol \in CryptoSymbols : StartLookup("getCryptoPrice", symbol)

\* the continuation of getStockPrice after `await fetchStockPrice(symbol)`
getStockPriceResume ==
  \E call \in BagToSet(pending), resp \in StockResponses :
    /\ call.fn = "getStockPrice"
    /\ pending' = pending (-) SetToBag({call})
    /\ IF ~fetchStockPriceThrows(resp)
       THEN LET data == fetchStockPrice(call.symbol, resp)
            IN  /\ cache' = [cache EXCEPT !.stocks =
                       MapSet(@, toUpperCase(call.symbol),
                              [data |-> data, timestamp |-> call.now])]
                /\ last' = Delivered(call, 1, "ok", "return", FetchedValue(data))
       ELSE /\ UNCHANGED cache
            /\ last' = IF StaleUsable(call.fn, call.cached, call.now)
                       THEN Delivered(call, 1, "failed", "return",
                                      CachedValue(call.cached, call.now, TRUE))
                       ELSE Delivered(call, 1, "failed", "throw", NoValue)
    /\ UNCHANGED <<clock, nextSweep, bulk, agg, alphaVantageCache, mongo, responses>>

\* the continuation of getCryptoPrice after `await fetchCryptoPrice(symbol)`
getCryptoPriceResume ==
  \E call \in BagToSet(pending), resp \in CryptoResponses :
    /\ call.fn = "getCryptoPrice"
    /\ pending' = pending (-) SetToBag({call})
    /\ LET upstream == IF fetchCryptoPriceCalls(call.symbol) THEN 1 ELSE 0
       IN  IF ~fetchCryptoPriceThrows(call.symbol, resp)
           THEN LET data == fetchCryptoPrice(call.symbol, resp)
                IN  /\ cache' = [cache EXCEPT !.crypto =
                           MapSet(@, toUpperCase(call.symbol),
                                  [data |-> data, timestamp |-> call.now])]
                    /\ last' = Delivered(call, upstream, "ok", "return", FetchedValue(data))
           ELSE /\ UNCHANGED cache
                /\ last' = IF StaleUsable(call.fn, call.cached, call.now)
                           THEN Delivered(call, upstream, "failed", "return",
                                          CachedValue(call.cached, call.now, TRUE))
                           ELSE Delivered(call, upstream, "failed", "throw", NoValue)
    /\ UNCHANGED <<clock, nextSweep, bulk, agg, alphaVantageCache, mongo, responses>>

(***************************************************************************)
(* The hourly sweep and the passage of time.                               *)
(***************************************************************************)
\* an entry is removed from the age STALE_DURATION on
Expired_Inclusive(map, now) ==
  {k \in DOMAIN map : now - map[k].timestamp >= STALE_DURATION}

Expired(map, now) ==
  {k \in DOMAIN map : now - map[k].timestamp > STALE_DURATION}

Sweep ==
  /\ clock = nextSweep
  /\ cache' = [ns \in DOMAIN cache |-> MapDelete(cache[ns], Expired(cache[ns], clock))]
  /\ nextSweep' = nextSweep + SWEEP_INTERVAL
  /\ last' = None
  /\ UNCHANGED <<clock, pending, bulk, agg, alphaVantageCache, mongo, responses>>

\* Time advances by Step (at most near times after a sweep instant), or to the
\* instant of the next sweep, up to horizon.  A provider call times out after
\* PROVIDER_TIMEOUT, which is shorter than Step, so no call is still awaited
\* after the advance; a due sweep runs before time moves on.
TickWithin(near, horizon) ==
  /\ PROVIDER_TIMEOUT < Step
  /\ pending = EmptyBag
  /\ mongo = NewAccount
  /\ responses = << >>
  /\ bulk = Idle
  /\ clock < nextSweep
  /\ \E t \in {clock + Step, nextSweep} :
       /\ t < nextSweep => (clock % SWEEP_INTERVAL) < near * Step
       /\ t <= horizon
       /\ clock' = t
  /\ last' = None
  /\ UNCHANGED <<nextSweep, cache, pending, bulk, agg, alphaVantageCache, mongo, responses>>

Tick == TickWithin(NearSteps, MaxHours * SWEEP_INTERVAL)

\* the bulk runs cover the first hour
BulkTick == TickWithin(BulkNear, SWEEP_INTERVAL)

(***************************************************************************)
(* getBulkPrices and the POST /bulk routes.                                *)
(***************************************************************************)
\* an element of a symbols array: a string, or a {symbol, type} object
Str(symbol) == [str |-> TRUE, symbol |-> symbol, type |-> ""]
Obj(symbol, type) == [str |-> FALSE, symbol |-> symbol, type |-> type]

\* JavaScript null in a results map
Null == [null |-> TRUE]

\* the symbols arrays the crypto bulk runs request
CryptoBulkRequests ==
  { <<Str("BTC"), Str("eth")>>,
    <<Str("AAPL"), Str("BTC"), Str("eth"), Str("btc")>> }

\* the symbols arrays the stock bulk runs request
StockBulkRequests ==
  { <<Str("AAPL"), Str("MSFT")>>,
    <<Str("MSFT"), Str("BTC"), Str("AAPL")>> }

\* the req.body.symbols the bulk routes receive; NotArray is a missing or
\* non-array value
NotArray == <<[str |-> FALSE, symbol |-> "", type |-> "not-an-array"]>>
BulkBodies ==
  { NotArray,
    << >>,
    <<Str("AAPL"), Str("BTC")>>,
    <<Obj("MSFT", "stock"), Obj("BTC", "crypto")>> }

\* symbol.toUpperCase() throws a TypeError on an element that is no string
toUpperCaseThrows(items) == \E i \in 1..Len(items) : ~items[i].str

\* the partition of getBulkPrices, as positions of the symbols array
CryptoPositions(items) ==
  {i \in 1..Len(items) : toUpperCase(items[i].symbol) \in DOMAIN CRYPTO_MAPPING}
StockPositions(items) == (1..Len(items)) \ CryptoPositions(items)

\* one request per symbol instead of one multi-id request
fetchMultipleCryptoPricesCalls_PerSymbol(items) ==
  Cardinality(CryptoPositions(items))

\* fetchMultipleCryptoPrices: the number of upstream requests it issues
fetchMultipleCryptoPricesCalls(items) ==
  IF {i \in CryptoPositions(items) : coinIdOf(items[i].symbol) # ""} = {} THEN 0 ELSE 1

\* what the multi-id request can answer: a failure, or for every coin id
\* either no entry (-1) or a usd price
CoinIds(items) == {coinIdOf(items[i].symbol) : i \in CryptoPositions(items)}
MultiResponses(items) ==
  {[status |-> "error", data |-> [id \in CoinIds(items) |-> -1]]}
  \cup {[status |-> "ok", data |-> d] : d \in [CoinIds(items) -> -1..MaxPrice]}

\* fetchMultipleCryptoPrices: the results object, keyed by upper-case symbol
fetchMultipleCryptoPrices(items, resp) ==
  LET found == {i \in CryptoPositions(items) :
                  /\ coinIdOf(items[i].symbol) # ""
                  /\ resp.data[coinIdOf(items[i].symbol)] # -1}
  IN  [k \in {toUpperCase(items[i].symbol) : i \in found} |->
         [symbol |-> k, price |-> resp.data[CRYPTO_MAPPING[k]]]]

\* the bulk fallback limited to entries younger than the hard expiry
BulkFallbackUsable_Cutoff(cached, now) ==
  cached.defined /\ (now - cached.timestamp) < STALE_DURATION

\* the `if (cached)` test of the bulk fallback
BulkFallbackUsable(cached, now) == cached.defined

\* results[symbol] = values[i] for every position i in ps, later positions
\* last
AssignAll(results, items, ps, values) ==
  [k \in DOMAIN results \cup {items[i].symbol : i \in ps} |->
     IF \E i \in ps : items[i].symbol = k
     THEN values[CHOOSE i \in ps :
                   /\ items[i].symbol = k
                   /\ \A j \in ps : items[j].symbol = k => j <= i]
     ELSE results[k]]

\* HTTP status of a bulk route for the outcome of its getBulkPrices call
RouteStatus(via, outcome) ==
  IF via = "direct" THEN 0 ELSE IF outcome = "return" THEN 200 ELSE 500

BulkDelivered(b, outcome, results, cryptoFetch) ==
  [fn |-> "getBulkPrices", via |-> b.via, items |-> b.items, now |-> b.now,
   outcome |-> outcome, status |-> RouteStatus(b.via, outcome),
   results |-> results, log |-> b.log, afterStocks |-> b.afterStocks,
   cryptoCalls |-> b.cryptoCalls, cryptoFetch |-> cryptoFetch,
   cryptoSnap |-> b.cryptoSnap]

\* the stock lookups are done (Promise.all resolved): issue the multi-id
\* request when there are crypto symbols, else return the results
AfterStocks(b) ==
  IF CryptoPositions(b.items) # {}
  THEN /\ bulk' = [b EXCEPT !.phase = "crypto",
                            !.afterStocks = b.results,
                            !.cryptoCalls = fetchMultipleCryptoPricesCalls(b.items),
                            !.cryptoSnap =
                               [i \in CryptoPositions(b.items) |->
                                  MapGet(cache.crypto, toUpperCase(b.items[i].symbol))]]
       /\ last' = None
  ELSE /\ bulk' = Idle
       /\ last' = BulkDelivered([b EXCEPT !.afterStocks = b.results],
                                "return", b.results, "none")

\* getBulkPrices(symbols) up to its first await: the partition and the start
\* of one getStockPrice per stock symbol
getBulkPricesStart(via, items) ==
  /\ bulk = Idle
  /\ IF toUpperCaseThrows(items)
     THEN /\ bulk' = Idle
          /\ last' = [fn |-> "getBulkPrices", via |-> via, items |-> items,
                      now |-> clock, outcome |-> "throw",
                      status |-> RouteStatus(via, "throw")]
     ELSE LET now == clock
              stocks == StockPositions(items)
              snap == [i \in stocks |->
                         MapGet(cache.stocks, toUpperCase(items[i].symbol))]
              fresh == {i \in stocks : IsFresh("getStockPrice", snap[i], now)}
              b == [phase |-> "stocks", via |-> via, items |-> items, now |-> now,
                    waiting |-> stocks \ fresh,
                    log |-> [i \in stocks |->
                               [cached |-> snap[i],
                                fetch |-> IF i \in fresh THEN "none" ELSE "pending",
                                c |-> 0]],
                    results |-> AssignAll(EmptyMap, items, fresh,
                                  [i \in fresh |-> CachedValue(snap[i], now, FALSE)]),
                    afterStocks |-> EmptyMap,
                    cryptoCalls |-> 0,
                    cryptoSnap |-> EmptyMap]
          IN  IF b.waiting # {}
              THEN bulk' = b /\ last' = None
              ELSE AfterStocks(b)
  /\ UNCHANGED <<clock, nextSweep, cache, pending, agg, alphaVantageCache, mongo, responses>>

\* a direct call of getBulkPrices
getBulkPrices(requests) == \E items \in requests : getBulkPricesStart("direct", items)

\* router.post('/bulk') of routes/prices.js: validation, normalisation of
\* strings to {symbol, type} objects, getBulkPrices
postBulk ==
  \E body \in BulkBodies :
    IF body = NotArray
    THEN /\ bulk = Idle
         /\ last' = [fn |-> "postBulk", via |-> "prices.js", status |-> 400]
         /\ UNCHANGED <<clock, nextSweep, cache, pending, bulk, agg, alphaVantageCache, mongo, responses>>
    ELSE getBulkPricesStart("prices.js",
           [i \in 1..Len(body) |->
              IF body[i].str THEN Obj(body[i].symbol, "stock") ELSE body[i]])

\* router.post('/bulk') of the other price routes file: validation,
\* getBulkPrices on the array as received
postBulkPlain ==
  \E body \in BulkBodies :
    IF body = NotArray \/ Len(body) = 0
    THEN /\ bulk = Idle
         /\ last' = [fn |-> "postBulk", via |-> "part_002", status |-> 400]
         /\ UNCHANGED <<clock, nextSweep, cache, pending, bulk, agg, alphaVantageCache, mongo, responses>>
    ELSE getBulkPricesStart("part_002", body)

\* a stock symbol whose lookup failed is looked up again
StillWaiting_RetryOnFailure(waiting, i, ok) == IF ok THEN waiting \ {i} ELSE waiting

\* the stock lookups Promise.all still awaits once the one of position i has
\* settled: it settles with its value, or through the catch block with null
StillWaiting(waiting, i, ok) == waiting \ {i}

\* the continuation of one stock lookup of the bulk call after its await
getBulkPricesStockResume ==
  \E i \in (IF bulk.phase = "stocks" THEN bulk.waiting ELSE {}),
     resp \in StockResponses :
    LET symbol == bulk.items[i].symbol
        cached == bulk.log[i].cached
        ok == ~fetchStockPriceThrows(resp)
        data == fetchStockPrice(symbol, resp)
        value == IF ok THEN FetchedValue(data)
                 ELSE IF StaleUsable("getStockPrice", cached, bulk.now)
                      THEN CachedValue(cached, bulk.now, TRUE)
                      ELSE Null
        b == [bulk EXCEPT
                !.waiting = StillWaiting(@, i, ok),
                !.log[i].fetch = IF ok THEN "ok" ELSE "failed",
                !.log[i].c = IF ok THEN resp.c ELSE 0,
                !.results = AssignAll(@, bulk.items, {i}, [j \in {i} |-> value])]
    IN  /\ cache' = IF ok
                    THEN [cache EXCEPT !.stocks =
                            MapSet(@, toUpperCase(symbol),
                                   [data |-> data, timestamp |-> bulk.now])]
                    ELSE cache
        /\ IF b.waiting # {}
           THEN bulk' = b /\ last' = None
           ELSE AfterStocks(b)
        /\ UNCHANGED <<clock, nextSweep, pending, agg, alphaVantageCache, mongo, responses>>

\* the continuation of getBulkPrices after `await fetchMultipleCryptoPrices`
getBulkPricesCryptoResume ==
  /\ bulk.phase = "crypto"
  /\ \E resp \in MultiResponses(bulk.items) :
       LET cryptos == CryptoPositions(bulk.items)
           now == clock
       IN  IF resp.status = "ok"
           THEN LET cryptoResults == fetchMultipleCryptoPrices(bulk.items, resp)
                    hit == {i \in cryptos :
                              toUpperCase(bulk.items[i].symbol) \in DOMAIN cryptoResults}
                    results ==
                      AssignAll(bulk.results, bulk.items, cryptos,
                        [i \in cryptos |->
                          IF i \in hit
                          THEN FetchedValue(
                                 cryptoResults[toUpperCase(bulk.items[i].symbol)])
                          ELSE Null])
                IN  /\ cache' = [cache EXCEPT !.crypto =
                          [k \in DOMAIN @ \cup DOMAIN cryptoResults |->
                             IF k \in DOMAIN cryptoResults
                             THEN [data |-> cryptoResults[k], timestamp |-> now]
                             ELSE @[k]]]
                    /\ last' = BulkDelivered(bulk, "return", results, "ok")
           ELSE LET results ==
                      AssignAll(bulk.results, bulk.items, cryptos,
                        [i \in cryptos |->
                          LET cached == MapGet(cache.crypto,
                                               toUpperCase(bulk.items[i].symbol))
                          IN  IF BulkFallbackUsable(cached, clock)
                              THEN CachedValue(cached, clock, TRUE)
                              ELSE Null])
                IN  /\ UNCHANGED cache
                    /\ last' = BulkDelivered(bulk, "return", results, "failed")
  /\ bulk' = Idle
  /\ UNCHANGED <<clock, nextSweep, pending, agg, alphaVantageCache, mongo, responses>>

(***************************************************************************)
(* Portfolio history: routes/historical.js, GET /portfolio and             *)
(* GET /crypto-portfolio.  Prices and values are in thousandths of a       *)
(* dollar, in exact arithmetic.                                            *)
(***************************************************************************)
\* the quantities of the holdings
Quantities == {2, 3}

\* the symbols of the holdings, by position
HoldingSymbols == <<"AAPL", "BTC", "MSFT">>

\* a holding whose fetch returned null
NullResult == [null |-> TRUE]

\* the raw series a provider returns: at most one point per timestamp, in
\* ascending order of timestamp
RECURSIVE SeriesOver(_)
SeriesOver(t) ==
  IF t = 0 THEN { << >> }
  ELSE LET shorter == SeriesOver(t - 1)
       IN  shorter \cup
           {Append(series, [timestamp |-> t, price |-> p]) :
              series \in shorter, p \in 1..MaxPrice}
RawSeries == SeriesOver(MaxTime)

\* response.data.prices.map / rawHistory.map: every price times the quantity
ScaleHistory(series, quantity) ==
  [i \in 1..Len(series) |->
     [timestamp |-> series[i].timestamp, price |-> series[i].price * quantity]]

\* historicalResults.filter(r => r !== null && r.history)
ValidResults(results) == SelectSeq(results, LAMBDA r : r # NullResult)

\* the point overwrites the value of its timestamp
AddPoint_Overwrite(map, point) ==
  IF \E i \in 1..Len(map) : map[i].timestamp = point.timestamp
  THEN LET i == CHOOSE i \in 1..Len(map) : map[i].timestamp = point.timestamp
       IN  [map EXCEPT ![i].price = point.price]
  ELSE Append(map, [timestamp |-> point.timestamp, price |-> 0 + point.price])

\* timestampMap.set(point.timestamp, timestampMap.get(point.timestamp) +
\* point.price), the Map being a sequence of entries in insertion order
AddPoint(map, point) ==
  IF \E i \in 1..Len(map) : map[i].timestamp = point.timestamp
  THEN LET i == CHOOSE i \in 1..Len(map) : map[i].timestamp = point.timestamp
       IN  [map EXCEPT ![i].price = @ + point.price]
  ELSE Append(map, [timestamp |-> point.timestamp, price |-> 0 + point.price])

\* result.history.forEach(point => ...)
RECURSIVE AddHistory(_, _)
AddHistory(map, history) ==
  IF history = << >> THEN map
  ELSE AddHistory(AddPoint(map, Head(history)), Tail(history))

\* validResults.forEach(result => ...)
RECURSIVE TimestampMap(_, _)
TimestampMap(map, results) ==
  IF results = << >> THEN map
  ELSE TimestampMap(AddHistory(map, Head(results).history), Tail(results))

\* Math.round(price * 100) / 100 of a positive value in thousandths
MathRound100(price) == ((price + 5) \div 10) * 10

\* Array.prototype.sort((a, b) => a.timestamp - b.timestamp): a stable sort
RECURSIVE InsertByTimestamp(_, _)
InsertByTimestamp(sorted, point) ==
  IF sorted = << >> THEN <<point>>
  ELSE IF point.timestamp - Head(sorted).timestamp < 0
       THEN <<point>> \o sorted
       ELSE <<Head(sorted)>> \o InsertByTimestamp(Tail(sorted), point)

RECURSIVE SortByTimestamp(_)
SortByTimestamp(points) ==
  IF points = << >> THEN << >>
  ELSE InsertByTimestamp(SortByTimestamp(SubSeq(points, 1, Len(points) - 1)),
                         points[Len(points)])

\* the history both routes answer with, from the results of the fetches
PortfolioHistory(results) ==
  LET validResults == ValidResults(results)
      timestampMap == TimestampMap(<< >>, validResults)
  IN  IF Len(validResults) = 0 THEN << >>
      ELSE SortByTimestamp(
             [i \in 1..Len(timestampMap) |->
                [timestamp |-> timestampMap[i].timestamp,
                 price |-> MathRound100(timestampMap[i].price)]])

\* the outcomes of the fetch of one holding: a raw series, or NullResult when
\* the fetch failed
FetchOutcomes == {[prices |-> series] : series \in RawSeries} \cup {NullResult}

\* the fetches of a portfolio history request are done: fetched[i] is the
\* outcome of the fetch of holding i, whose symbol is the one of its position
FetchedPortfolio(quantities, fetched) ==
  [phase |-> "fetched",
   holdings |-> [i \in DOMAIN quantities |->
                   [symbol |-> HoldingSymbols[((i - 1) % Len(HoldingSymbols)) + 1],
                    quantity |-> quantities[i]]],
   fetched |-> fetched]

\* after `await Promise.all(historicalDataPromises)`: the merge and the answer
portfolioMerge ==
  /\ agg.phase = "fetched"
  /\ LET results ==
           [i \in 1..Len(agg.holdings) |->
              IF agg.fetched[i] = NullResult THEN NullResult
              ELSE [symbol |-> agg.holdings[i].symbol,
                    history |-> ScaleHistory(agg.fetched[i].prices,
                                            agg.holdings[i].quantity)]]
     IN  agg' = [phase |-> "done", success |-> TRUE, holdings |-> agg.holdings,
                 fetched |-> agg.fetched,
                 history |-> PortfolioHistory(results)] @@ agg
  /\ UNCHANGED <<clock, nextSweep, cache, pending, bulk, last, alphaVantageCache, mongo, responses>>

InitMerge ==
  /\ clock = 0
  /\ nextSweep = SWEEP_INTERVAL
  /\ cache = [stocks |-> EmptyMap, crypto |-> EmptyMap, search |-> EmptyMap]
  /\ pending = EmptyBag
  /\ mongo = NewAccount
  /\ responses = << >>
  /\ bulk = Idle
  /\ last = None
  /\ alphaVantageCache = EmptyMap
  /\ \E n \in 1..MaxHoldings :
       \E quantities \in [1..n -> Quantities], fetched \in [1..n -> FetchOutcomes] :
         agg = FetchedPortfolio(quantities, fetched)

NextMerge == portfolioMerge

SpecMerge == InitMerge /\ [][NextMerge]_vars

(***************************************************************************)
(* The portfolio history requests: GET /portfolio and GET /crypto-portfolio *)
(* of routes/historical.js, from Portfolio.find to the answer.             *)
(***************************************************************************)
CRYPTO_IDS ==
  ("BTC" :> "bitcoin") @@ ("ETH" :> "ethereum") @@ ("BNB" :> "binancecoin") @@
  ("SOL" :> "solana") @@ ("XRP" :> "ripple") @@ ("ADA" :> "cardano") @@
  ("DOGE" :> "dogecoin") @@ ("DOT" :> "polkadot") @@ ("AVAX" :> "avalanche-2") @@
  ("LINK" :> "chainlink") @@ ("UNI" :> "uniswap") @@ ("LTC" :> "litecoin") @@
  ("ATOM" :> "cosmos") @@ ("TRX" :> "tron")

\* lifetime of an alphaVantageCache entry
CACHE_DURATION == 60 * 60 * 1000

\* parseInt(req.query.days) || 30, for a request without a days parameter
Days == 30

PortfolioRoutes == {"/portfolio", "/crypto-portfolio"}

Holding(symbol, type, quantity) ==
  [symbol |-> symbol, type |-> type, quantity |-> quantity]

\* the holdings a user can have: none, a stock, a stock and a mapped coin, and
\* these two after a coin that CRYPTO_IDS does not map
UserHoldings ==
  { << >>,
    <<Holding("AAPL", "stock", 2)>>,
    <<Holding("AAPL", "stock", 2), Holding("BTC", "crypto", 3)>>,
    <<Holding("SHIB", "crypto", 2), Holding("AAPL", "stock", 3),
      Holding("BTC", "crypto", 2)>> }

\* Portfolio.find({ userId }) and Portfolio.find({ userId, type: 'crypto' })
PortfolioFind(route, holdings) ==
  IF route = "/crypto-portfolio"
  THEN SelectSeq(holdings, LAMBDA h : h.type = "crypto")
  ELSE holdings

\* the series a provider answers with: none, or a point at every timestamp
HistorySeries ==
  { << >> } \cup
  {[t \in 1..MaxTime |-> [timestamp |-> t, price |-> p]] : p \in 1..MaxPrice}

\* Alpha Vantage TIME_SERIES_DAILY: a failed request, a rate-limit Note, an
\* Error Message, an answer without 'Time Series (Daily)', or the series
AlphaVantageResponses ==
  {[kind |-> k, series |-> << >>] : k \in {"error", "note", "errorMessage", "noSeries"}}
  \cup {[kind |-> "ok", series |-> series] : series \in HistorySeries}

\* CoinGecko market_chart: a failed request, an answer without prices, or the
\* prices
MarketChartResponses ==
  {[kind |-> k, series |-> << >>] : k \in {"error", "noPrices"}}
  \cup {[kind |-> "ok", series |-> series] : series \in HistorySeries}

\* the fetch of a holding that has not started, and one awaiting its provider
PendingFetch == [state |-> "pending"]
AwaitedFetch == [state |-> "awaited"]

\* a Note counts as data
HistoryFetchFails_IgnoreNote(resp) == resp.kind \notin {"ok", "note"}

\* the fetch of a holding returns null: the request threw, the answer carries
\* a Note or an Error Message, or it has no series
HistoryFetchFails(resp) == resp.kind # "ok"

\* the holding is fetched from Alpha Vantage
UsesAlphaVantage(route, holding) == route = "/portfolio" /\ holding.type # "crypto"

\* `${holding.symbol}-${days}`
CacheKey(symbol, days) == <<symbol, days>>

\* every fetch has resolved: Promise.all(historicalDataPromises) resolves
Settled(request) ==
  IF \A i \in 1..Len(request.fetched) :
       request.fetched[i] \notin {PendingFetch, AwaitedFetch}
  THEN [request EXCEPT !.phase = "fetched"]
  ELSE request

(***************************************************************************)
(* searchSymbols and the GET /search/:query routes.  A string that is      *)
(* searched or matched is the sequence of its characters.                  *)
(***************************************************************************)
UpperCaseLetters ==
  <<"A", "B", "C", "D", "E", "F", "G", "H", "I", "J", "K", "L", "M",
    "N", "O", "P", "Q", "R", "S", "T", "U", "V", "W", "X", "Y", "Z">>
LowerCaseLetters ==
  <<"a", "b", "c", "d", "e", "f", "g", "h", "i", "j", "k", "l", "m",
    "n", "o", "p", "q", "r", "s", "t", "u", "v", "w", "x", "y", "z">>

\* String.prototype.toLowerCase
toLowerCase(str) ==
  [i \in 1..Len(str) |->
     IF \E j \in 1..Len(UpperCaseLetters) : UpperCaseLetters[j] = str[i]
     THEN LowerCaseLetters[CHOOSE j \in 1..Len(UpperCaseLetters) :
                             UpperCaseLetters[j] = str[i]]
     ELSE str[i]]

\* String.prototype.includes
includes(str, searchString) ==
  \E i \in 0..(Len(str) - Len(searchString)) :
    SubSeq(str, i + 1, i + Len(searchString)) = searchString

\* String.prototype.endsWith
endsWith(str, searchString) ==
  /\ Len(searchString) <= Len(str)
  /\ SubSeq(str, Len(str) - Len(searchString) + 1, Len(str)) = searchString

\* Array.prototype.slice(0, end)
slice(array, end) == SubSeq(array, 1, IF Len(array) < end THEN Len(array) ELSE end)

PopularEntry(symbol, name) == [symbol |-> symbol, name |-> name, type |-> "Common Stock"]

POPULAR_SEARCH_RESULTS ==
  <<PopularEntry(<<"A", "A", "P", "L">>, <<"A", "p", "p", "l", "e", " ", "I", "n",
                  "c", ".">>),
    PopularEntry(<<"M", "S", "F", "T">>, <<"M", "i", "c", "r", "o", "s", "o", "f",
                  "t", " ", "C", "o", "r", "p", "o", "r", "a", "t", "i", "o",
                  "n">>),
    PopularEntry(<<"G", "O", "O", "G", "L">>, <<"A", "l", "p", "h", "a", "b", "e",
                  "t", " ", "I", "n", "c", ".">>),
    PopularEntry(<<"A", "M", "Z", "N">>, <<"A", "m", "a", "z", "o", "n", ".", "c",
                  "o", "m", " ", "I", "n", "c", ".">>),
    PopularEntry(<<"N", "V", "D", "A">>, <<"N", "V", "I", "D", "I", "A", " ", "C",
                  "o", "r", "p", "o", "r", "a", "t", "i", "o", "n">>),
    PopularEntry(<<"T", "S", "L", "A">>, <<"T", "e", "s", "l", "a", " ", "I", "n",
                  "c", ".">>),
    PopularEntry(<<"M", "E", "T", "A">>, <<"M", "e", "t", "a", " ", "P", "l", "a",
                  "t", "f", "o", "r", "m", "s", " ", "I", "n", "c", ".">>),
    PopularEntry(<<"B", "R", "K", ".", "B">>, <<"B", "e", "r", "k", "s", "h", "i",
                  "r", "e", " ", "H", "a", "t", "h", "a", "w", "a", "y", " ",
                  "I", "n", "c", ".">>),
    PopularEntry(<<"V">>, <<"V", "i", "s", "a", " ", "I", "n", "c", ".">>),
    PopularEntry(<<"J", "P", "M">>, <<"J", "P", "M", "o", "r", "g", "a", "n", " ",
                  "C", "h", "a", "s", "e", " ", "&", " ", "C", "o", ".">>),
    PopularEntry(<<"W", "M", "T">>, <<"W", "a", "l", "m", "a", "r", "t", " ", "I",
                  "n", "c", ".">>),
    PopularEntry(<<"M", "A">>, <<"M", "a", "s", "t", "e", "r", "c", "a", "r", "d",
                  " ", "I", "n", "c", ".">>),
    PopularEntry(<<"H", "D">>, <<"T", "h", "e", " ", "H", "o", "m", "e", " ", "D",
                  "e", "p", "o", "t", " ", "I", "n", "c", ".">>),
    PopularEntry(<<"D", "I", "S">>, <<"T", "h", "e", " ", "W", "a", "l", "t", " ",
                  "D", "i", "s", "n", "e", "y", " ", "C", "o", "m", "p", "a",
                  "n", "y">>),
    PopularEntry(<<"N", "F", "L", "X">>, <<"N", "e", "t", "f", "l", "i", "x", " ",
                  "I", "n", "c", ".">>),
    PopularEntry(<<"A", "D", "B", "E">>, <<"A", "d", "o", "b", "e", " ", "I", "n",
                  "c", ".">>),
    PopularEntry(<<"P", "Y", "P", "L">>, <<"P", "a", "y", "P", "a", "l", " ", "H",
                  "o", "l", "d", "i", "n", "g", "s", " ", "I", "n", "c",
                  ".">>),
    PopularEntry(<<"I", "N", "T", "C">>, <<"I", "n", "t", "e", "l", " ", "C", "o",
                  "r", "p", "o", "r", "a", "t", "i", "o", "n">>),
    PopularEntry(<<"C", "S", "C", "O">>, <<"C", "i", "s", "c", "o", " ", "S", "y",
                  "s", "t", "e", "m", "s", " ", "I", "n", "c", ".">>),
    PopularEntry(<<"P", "F", "E">>, <<"P", "f", "i", "z", "e", "r", " ", "I", "n",
                  "c", ".">>)>>

\* the queries the runs search for; the last one is too short for the routes
SearchQueries == {<<"A", "A", "P">>, <<"i", "n", "c">>, <<"a">>}

SearchItem(symbol, type, description) ==
  [symbol |-> symbol, type |-> type, description |-> description]

\* response.data.result of Finnhub's /search for a query: listings of several
\* kinds for "aap", eleven common stocks for "inc"
FinnhubResult(query) ==
  IF toLowerCase(query) = <<"a", "a", "p">>
  THEN <<SearchItem(<<"A", "A", "P", "L">>,
                    <<"C", "o", "m", "m", "o", "n", " ", "S", "t", "o", "c", "k">>,
                    "APPLE INC"),
         SearchItem(<<"A", "A", "P", "L", ".", "T", "O">>,
                    <<"C", "o", "m", "m", "o", "n", " ", "S", "t", "o", "c", "k">>,
                    "APPLE CDR"),
         SearchItem(<<"A", "A", "P", "D">>, <<"E", "T", "P">>, "DIREXION DAILY AAPL"),
         SearchItem(<<"A", "A", "P", "W">>, <<"E", "Q", "U", "I", "T", "Y">>, "AAP WARRANT"),
         SearchItem(<<"A", "A", "P", "-", "A">>, << >>, "AAP PREFERRED"),
         SearchItem(<<"A", "A", "P">>, <<"E", "Q", "U", "I", "T", "Y">>,
                    "ADVANCE AUTO PARTS INC"),
         SearchItem(<<"A", "A", "P", "L", "X", "Y">>, << >>, "AAPL LONG"),
         SearchItem(<<"A", "A", "P", "J">>, << >>, "AAP JAPAN")>>
  ELSE [i \in 1..11 |->
          SearchItem(<<"I", "N", UpperCaseLetters[i]>>,
                     <<"C", "o", "m", "m", "o", "n", " ", "S", "t", "o", "c", "k">>,
                     "INC")]

\* what the provider can answer: a failed request, an answer without result,
\* or the listings
SearchResponses(query) ==
  {[status |-> "error", result |-> << >>],
   [status |-> "ok", result |-> << >>],
   [status |-> "ok", result |-> FinnhubResult(query)]}

\* the filter to US-listed common stocks
IsUsCommonStock(item) ==
  LET symbol == item.symbol
      type == toLowerCase(item.type)
  IN  /\ type \in {<<"c", "o", "m", "m", "o", "n", " ", "s", "t", "o", "c", "k">>,
                   <<"e", "q", "u", "i", "t", "y">>, << >>}
      /\ ~includes(symbol, <<".">>)
      /\ ~includes(symbol, <<"-">>)
      /\ ~endsWith(symbol, <<"W">>)
      /\ ~endsWith(symbol, <<"U">>)
      /\ Len(symbol) <= 5

\* (response.data.result || []).filter(...).slice(0, 10).map(...)
searchResults(resp) ==
  LET kept == slice(SelectSeq(resp.result, IsUsCommonStock), 10)
  IN  [i \in 1..Len(kept) |->
         [symbol |-> kept[i].symbol, name |-> kept[i].description,
          type |-> "Common Stock", region |-> "United States"]]

\* the popular list filtered by symbol only
popularFallback_SymbolOnly(query) ==
  slice(SelectSeq(POPULAR_SEARCH_RESULTS,
                  LAMBDA item : includes(toLowerCase(item.symbol), toLowerCase(query))),
        10)

\* POPULAR_SEARCH_RESULTS.filter(...).slice(0, 10)
popularFallback(query) ==
  slice(SelectSeq(POPULAR_SEARCH_RESULTS,
                  LAMBDA item :
                    \/ includes(toLowerCase(item.symbol), toLowerCase(query))
                    \/ includes(toLowerCase(item.name), toLowerCase(query))),
        10)

\* the fallback and the cache key of every query of the runs, computed once
PopularFallbackOf == [query \in SearchQueries |-> popularFallback(query)]
CacheKeyOf == [query \in SearchQueries |-> toLowerCase(query)]

\* the results of every answer the provider can give, computed once
SearchResultsOf ==
  [query \in SearchQueries |->
     [resp \in SearchResponses(query) |-> searchResults(resp)]]

\* cache.search.get(cacheKey)
SearchGet(cacheKey) ==
  IF cacheKey \in DOMAIN cache.search
  THEN [defined |-> TRUE, results |-> cache.search[cacheKey].results,
        timestamp |-> cache.search[cacheKey].timestamp]
  ELSE [defined |-> FALSE, results |-> << >>, timestamp |-> 0]

\* the cached results are used up to the hard expiry only
SearchStaleUsable_Cutoff(cached, now) ==
  cached.defined /\ (now - cached.timestamp) < STALE_DURATION

\* `if (cached)` of the catch block
SearchStaleUsable(cached, now) == cached.defined

\* what a search delivers to the route and the route to its client
SearchDelivered(call, upstream, fetch, status, results) ==
  [fn |-> "searchSymbols", query |-> call.query, now |-> call.now,
   cached |-> call.cached, upstream |-> upstream, fetch |-> fetch,
   outcome |-> "return", status |-> status, results |-> results]

Init ==
  /\ clock = 0
  /\ nextSweep = SWEEP_INTERVAL
  /\ cache = [stocks |-> EmptyMap, crypto |-> EmptyMap, search |-> EmptyMap]
  /\ pending = EmptyBag
  /\ mongo = NewAccount
  /\ responses = << >>
  /\ bulk = Idle
  /\ last = None
  /\ agg = [phase |-> "idle"]
  /\ alphaVantageCache = EmptyMap

\* the answer is an error
EmptyAnswer_Error(request) ==
  [phase |-> "done", success |-> FALSE, history |-> << >>] @@ request

\* res.json({ success: true, history: [] })
EmptyAnswer(request) ==
  [phase |-> "done", success |-> TRUE, history |-> << >>] @@ request

\* the route reads the holdings; with none, or when the read fails, it answers
\* an empty history at once
Started(route, owned, find) ==
  LET holdings == IF find = "ok" THEN PortfolioFind(route, owned) ELSE << >>
      request == [route |-> route, find |-> find, holdings |-> holdings,
                  fetched |-> [i \in 1..Len(holdings) |-> PendingFetch],
                  log |-> [i \in 1..Len(holdings) |-> "pending"],
                  calls |-> 0, cacheReads |-> 0, cacheWrites |-> 0]
  IN  IF Len(holdings) = 0 \/ find = "failed"
      THEN EmptyAnswer(request)
      ELSE [phase |-> "fetching"] @@ request

portfolioStart ==
  /\ agg.phase \in {"idle", "done"}
  /\ \E route \in PortfolioRoutes, owned \in UserHoldings, find \in {"ok", "failed"} :
       agg' = Started(route, owned, find)
  /\ UNCHANGED <<clock, nextSweep, cache, pending, bulk, last, alphaVantageCache, mongo, responses>>

\* the fetch of holding i up to its provider request: a stock is answered from
\* alphaVantageCache while its entry is younger than CACHE_DURATION, a coin
\* without a CRYPTO_IDS entry returns null
FetchStarted(i) ==
  LET holding == agg.holdings[i]
      cacheKey == CacheKey(holding.symbol, Days)
  IN  IF UsesAlphaVantage(agg.route, holding)
      THEN IF /\ cacheKey \in DOMAIN alphaVantageCache
              /\ clock - alphaVantageCache[cacheKey].timestamp < CACHE_DURATION
           THEN Settled([agg EXCEPT
                         !.fetched[i] = [prices |-> alphaVantageCache[cacheKey].data],
                         !.log[i] = "cached",
                         !.cacheReads = @ + 1])
           ELSE [agg EXCEPT !.fetched[i] = AwaitedFetch,
                            !.cacheReads = @ + 1,
                            !.calls = @ + 1]
      ELSE IF holding.symbol \notin DOMAIN CRYPTO_IDS
           THEN Settled([agg EXCEPT !.fetched[i] = NullResult,
                                    !.log[i] = "unmapped"])
           ELSE [agg EXCEPT !.fetched[i] = AwaitedFetch,
                            !.calls = @ + 1]

portfolioFetchStart ==
  /\ agg.phase = "fetching"
  /\ \E i \in 1..Len(agg.holdings) :
       /\ agg.fetched[i] = PendingFetch
       /\ agg' = FetchStarted(i)
  /\ UNCHANGED <<clock, nextSweep, cache, pending, bulk, last, alphaVantageCache, mongo, responses>>

\* the provider of holding i answers: a fetched stock series is cached
portfolioFetchResume ==
  /\ agg.phase = "fetching"
  /\ \E i \in 1..Len(agg.holdings) :
       /\ agg.fetched[i] = AwaitedFetch
       /\ LET holding == agg.holdings[i]
              stock == UsesAlphaVantage(agg.route, holding)
          IN  \E resp \in IF stock THEN AlphaVantageResponses ELSE MarketChartResponses :
                IF HistoryFetchFails(resp)
                THEN /\ agg' = Settled([agg EXCEPT !.fetched[i] = NullResult,
                                                   !.log[i] = resp.kind])
                     /\ UNCHANGED alphaVantageCache
                ELSE /\ agg' = Settled([agg EXCEPT
                                  !.fetched[i] = [prices |-> resp.series],
                                  !.log[i] = resp.kind,
                                  !.cacheWrites = IF stock THEN @ + 1 ELSE @])
                     /\ alphaVantageCache' =
                          IF stock
                          THEN MapSet(alphaVantageCache, CacheKey(holding.symbol, Days),
                                      [timestamp |-> clock, data |-> resp.series])
                          ELSE alphaVantageCache
  /\ UNCHANGED <<clock, nextSweep, cache, pending, bulk, last, mongo, responses>>

\* time passes between requests and while none awaits a provider
PortfolioTick ==
  /\ agg.phase \in {"idle", "done"}
  /\ BulkTick

NextPortfolio ==
  \/ portfolioStart
  \/ portfolioFetchStart
  \/ portfolioFetchResume
  \/ portfolioMerge
  \/ Sweep
  \/ PortfolioTick

SpecPortfolio == Init /\ [][NextPortfolio]_vars

\* the delay before the fetch of a holding after the first: setTimeout of
\* 200 ms in GET /portfolio, of 300 ms in GET /crypto-portfolio
CourtesyDelay(route) == IF route = "/crypto-portfolio" THEN 300 ELSE 200

\* the time at which the callback of holding i (index i - 1 of the map) goes
\* on to its fetch: `if (index > 0) await new Promise(... setTimeout ...)`
Due(i) == agg.startedAt + (IF i - 1 > 0 THEN CourtesyDelay(agg.route) ELSE 0)

\* the holdings of the timed runs: a stock and a coin, two coins, three coins
TimedHoldings ==
  { <<Holding("AAPL", "stock", 2), Holding("BTC", "crypto", 3)>>,
    <<Holding("BTC", "crypto", 2), Holding("ETH", "crypto", 3)>>,
    <<Holding("BTC", "crypto", 2), Holding("ETH", "crypto", 3),
      Holding("SOL", "crypto", 2)>> }

\* a portfolio history request with the times of its provider requests: the
\* time the map over the holdings ran, and for each holding the time its
\* provider request was issued (-1 when none was)
portfolioTimedStart ==
  /\ agg.phase \in {"idle", "done"}
  /\ clock < MaxWaits * CourtesyDelay("/portfolio")
  /\ \E route \in PortfolioRoutes, owned \in TimedHoldings, find \in {"ok", "failed"} :
       LET request == Started(route, owned, find)
       IN  agg' = [startedAt |-> clock,
                   issuedAt |-> [i \in 1..Len(request.holdings) |-> -1]] @@ request
  /\ UNCHANGED <<clock, nextSweep, cache, pending, bulk, last, alphaVantageCache, mongo, responses>>

\* the callback of holding i, its delay over, runs up to its provider request
portfolioTimedFetch ==
  /\ agg.phase = "fetching"
  /\ \E i \in 1..Len(agg.holdings) :
       /\ agg.fetched[i] = PendingFetch
       /\ clock >= Due(i)
       /\ LET started == FetchStarted(i)
          IN  agg' = [started EXCEPT !.issuedAt[i] =
                        IF started.fetched[i] = AwaitedFetch THEN clock ELSE @]
  /\ UNCHANGED <<clock, nextSweep, cache, pending, bulk, last, alphaVantageCache, mongo, responses>>

\* the timers of the delayed callbacks fire: every callback that is due has
\* run, and time advances to the earliest timer
CourtesyTick ==
  /\ agg.phase = "fetching"
  /\ LET waiting == {i \in 1..Len(agg.holdings) : agg.fetched[i] = PendingFetch}
     IN  /\ waiting # {}
         /\ \A i \in waiting : Due(i) > clock
         /\ \E i \in waiting :
              /\ \A j \in waiting : Due(i) <= Due(j)
              /\ clock' = Due(i)
  /\ UNCHANGED <<nextSweep, cache, pending, bulk, last, agg, alphaVantageCache, mongo, responses>>

NextCourtesy ==
  \/ portfolioTimedStart
  \/ portfolioTimedFetch
  \/ portfolioFetchResume
  \/ portfolioMerge
  \/ CourtesyTick

SpecCourtesy == Init /\ [][NextCourtesy]_vars

\* GET /search/:query: a query shorter than 2 characters is rejected, the
\* others run searchSymbols up to its provider request: the clock and the
\* cache are read, and a fresh entry is the answer
searchRoute(queries) ==
  \E query \in queries :
    IF Len(query) < 2
    THEN /\ last' = [fn |-> "getSearch", query |-> query, outcome |-> "rejected",
                     status |-> 400, upstream |-> 0, cacheReads |-> 0]
         /\ UNCHANGED <<clock, nextSweep, cache, pending, bulk, agg, alphaVantageCache, mongo, responses>>
    ELSE LET now == clock
             cached == SearchGet(CacheKeyOf[query])
             call == [fn |-> "searchSymbols", query |-> query, now |-> now,
                      cached |-> cached]
         IN  IF cached.defined /\ (now - cached.timestamp) < FRESH_DURATION
             THEN /\ last' = SearchDelivered(call, 0, "none", 200, cached.results)
                  /\ UNCHANGED <<clock, nextSweep, cache, pending, bulk, agg,
                                 alphaVantageCache, mongo, responses>>
             ELSE /\ BagCardinality(pending) < MaxCalls
                  /\ pending' = pending (+) SetToBag({call})
                  /\ last' = None
                  /\ UNCHANGED <<clock, nextSweep, cache, bulk, agg, alphaVantageCache, mongo, responses>>

getSearch == searchRoute(SearchQueries)

\* the continuation of searchSymbols after `await axios.get(...)`, and the
\* answer of the route
searchSymbolsResume ==
  \E call \in BagToSet(pending) :
    /\ call.fn = "searchSymbols"
    /\ pending' = pending (-) SetToBag({call})
    /\ \E resp \in SearchResponses(call.query) :
         IF resp.status = "ok"
         THEN LET results == SearchResultsOf[call.query][resp]
              IN  /\ cache' = [cache EXCEPT !.search =
                         MapSet(@, CacheKeyOf[call.query],
                                [results |-> results, timestamp |-> call.now])]
                  /\ last' = SearchDelivered(call, 1, "ok", 200, results)
         ELSE /\ UNCHANGED cache
              /\ last' = IF SearchStaleUsable(call.cached, call.now)
                         THEN SearchDelivered(call, 1, "failed", 200, call.cached.results)
                         ELSE SearchDelivered(call, 1, "failed", 200,
                                              PopularFallbackOf[call.query])
    /\ UNCHANGED <<clock, nextSweep, bulk, agg, alphaVantageCache, mongo, responses>>

NextSearch ==
  \/ getSearch
  \/ searchSymbolsResume
  \/ Sweep
  \/ BulkTick

SpecSearch == Init /\ [][NextSearch]_vars

\* the symbols the price routes are asked for: a coin of CRYPTO_MAPPING and
\* one it does not map
RouteSymbols == {"BTC", "SHIB"}

\* the bulk request of the runs that mix the entry points
MixedBulkRequests == {<<Str("SHIB"), Str("BTC")>>}

\* GET /stock/:symbol: getStockPrice on the symbol of the path
getStockRoute == \E symbol \in {"BTC"} : StartLookup("getStockPrice", symbol)

\* GET /crypto/:symbol, and the holdings valuation of a holding of type
\* 'crypto': getCryptoPrice on the symbol
getCryptoRoute == \E symbol \in RouteSymbols : StartLookup("getCryptoPrice", symbol)

\* the runs that mix the entry points observe the clock at 0 and one Step later
MixedTick == TickWithin(1, Step)

NextMixed ==
  \/ getStockRoute
  \/ getCryptoRoute
  \/ getStockPriceResume
  \/ getCryptoPriceResume
  \/ getBulkPrices(MixedBulkRequests)
  \/ getBulkPricesStockResume
  \/ getBulkPricesCryptoResume
  \/ MixedTick

SpecMixed == Init /\ [][NextMixed]_vars

\* the time a provider takes to answer in the latency runs
Latency == PROVIDER_TIMEOUT \div 2

\* time passes while lookups await their provider: none of them is awaited
\* up to PROVIDER_TIMEOUT
AwaitTick ==
  /\ pending # EmptyBag
  /\ \A call \in BagToSet(pending) : clock + Latency - call.now < PROVIDER_TIMEOUT
  /\ clock + Latency <= MaxWaits * Latency
  /\ clock' = clock + Latency
  /\ last' = None
  /\ UNCHANGED <<nextSweep, cache, pending, bulk, agg, alphaVantageCache, mongo, responses>>

NextLatency ==
  \/ getStockPriceStart
  \/ getStockPriceResume
  \/ getCryptoPriceStart
  \/ getCryptoPriceResume
  \/ AwaitTick

SpecLatency == Init /\ [][NextLatency]_vars

\* the keys of CRYPTO_MAPPING made of a base ticker and a quote currency
QuoteSuffixed(base) ==
  CASE base = "BTC" -> {"BTC", "BTCUSD", "BTCUSDT"}
    [] base = "ETH" -> {"ETH", "ETHUSD", "ETHUSDT"}
    [] base = "BNB" -> {"BNB", "BNBUSD", "BNBUSDT"}
    [] base = "SOL" -> {"SOL", "SOLUSD", "SOLUSDT"}
    [] base = "XRP" -> {"XRP", "XRPUSD", "XRPUSDT"}
    [] base = "ADA" -> {"ADA", "ADAUSD", "ADAUSDT"}
    [] base = "DOGE" -> {"DOGE", "DOGEUSD", "DOGEUSDT"}
    [] base = "DOT" -> {"DOT", "DOTUSD", "DOTUSDT"}
    [] base = "AVAX" -> {"AVAX", "AVAXUSD", "AVAXUSDT"}
    [] base = "LINK" -> {"LINK", "LINKUSD", "LINKUSDT"}
    [] base = "UNI" -> {"UNI", "UNIUSD", "UNIUSDT"}
    [] base = "LTC" -> {"LTC", "LTCUSD", "LTCUSDT"}
    [] base = "ATOM" -> {"ATOM", "ATOMUSD", "ATOMUSDT"}
    [] base = "TRX" -> {"TRX", "TRXUSD", "TRXUSDT"}
    [] OTHER -> {base}

\* a base ticker and one of its aliases
AliasInputs ==
  UNION {{[phase |-> "alias", base |-> base, ticker |-> ticker] :
            ticker \in QuoteSuffixed(base) \cap DOMAIN CRYPTO_MAPPING} :
         base \in DOMAIN CRYPTO_IDS}

\* CRYPTO_IDS[holding.symbol], "" standing for undefined
historyCoinId(symbol) ==
  IF symbol \in DOMAIN CRYPTO_IDS THEN CRYPTO_IDS[symbol] ELSE ""

\* the quote service resolves the ticker and its base ticker
resolveQuote ==
  /\ agg.phase = "alias"
  /\ last' = [fn |-> "fetchCryptoPrice", symbol |-> agg.ticker,
              coinId |-> coinIdOf(agg.ticker), baseCoinId |-> coinIdOf(agg.base)]
  /\ UNCHANGED <<clock, nextSweep, cache, pending, bulk, agg, alphaVantageCache, mongo, responses>>

\* the history aggregator resolves the ticker and its base ticker
resolveHistory ==
  /\ agg.phase = "alias"
  /\ last' = [fn |-> "portfolioHistory", symbol |-> agg.ticker,
              coinId |-> historyCoinId(agg.ticker),
              baseCoinId |-> historyCoinId(agg.base)]
  /\ UNCHANGED <<clock, nextSweep, cache, pending, bulk, agg, alphaVantageCache, mongo, responses>>

InitResolve ==
  /\ clock = 0
  /\ nextSweep = SWEEP_INTERVAL
  /\ cache = [stocks |-> EmptyMap, crypto |-> EmptyMap, search |-> EmptyMap]
  /\ pending = EmptyBag
  /\ mongo = NewAccount
  /\ responses = << >>
  /\ bulk = Idle
  /\ last = None
  /\ alphaVantageCache = EmptyMap
  /\ agg \in AliasInputs

NextResolve ==
  \/ resolveQuote
  \/ resolveHistory

SpecResolve == InitResolve /\ [][NextResolve]_vars

\* the ages the entries of the caches have when the sweep is due
SweepAges == {0, FRESH_DURATION, STALE_DURATION, STALE_DURATION + Step}

\* a namespace with no entry, or with one entry for key that was written at
\* one of the times in stamps
OneEntryMaps(key, entry, stamps) ==
  {EmptyMap} \cup {MapSet(EmptyMap, key, entry @@ [timestamp |-> t]) : t \in stamps}

\* the sweep is due for the h-th time, and every namespace holds at most one
\* entry, of any of the ages
InitSweep ==
  /\ \E h \in 1..MaxHours : clock = h * SWEEP_INTERVAL
  /\ nextSweep = clock
  /\ \E stocks \in OneEntryMaps("AAPL", [data |-> fetchStockPrice("AAPL", [c |-> 1])],
                                {clock - age : age \in {a \in SweepAges : a <= clock}}),
        crypto \in OneEntryMaps("BTC", [data |-> fetchCryptoPrice("btc", [usd |-> 1])],
                                {clock - age : age \in {a \in SweepAges : a <= clock}}),
        search \in OneEntryMaps(<<"a", "a", "p">>,
                                [results |-> searchResults(
                                   [result |-> FinnhubResult(<<"a", "a", "p">>)])],
                                {clock - age : age \in {a \in SweepAges : a <= clock}}) :
       cache = [stocks |-> stocks, crypto |-> crypto, search |-> search]
  /\ pending = EmptyBag
  /\ mongo = NewAccount
  /\ responses = << >>
  /\ bulk = Idle
  /\ last = None
  /\ agg = [phase |-> "idle"]
  /\ alphaVantageCache = EmptyMap

NextSweep ==
  \/ Sweep
  \/ getStockPriceStart
  \/ getStockPriceResume
  \/ getCryptoPriceStart
  \/ getCryptoPriceResume

SpecSweep == InitSweep /\ [][NextSweep]_vars

\* getCacheStats(): the sizes and the keys of the three namespaces
getCacheStats ==
  /\ last' = [fn |-> "getCacheStats",
              stats |-> [ns \in DOMAIN cache |->
                           [count |-> Cardinality(DOMAIN cache[ns]),
                            keys |-> DOMAIN cache[ns]]]]
  /\ UNCHANGED <<clock, nextSweep, cache, pending, bulk, agg, alphaVantageCache, mongo, responses>>

\* clearCache(): cache.stocks.clear(), cache.crypto.clear(), cache.search.clear()
clearCache ==
  /\ cache' = [ns \in DOMAIN cache |-> EmptyMap]
  /\ last' = [fn |-> "clearCache"]
  /\ UNCHANGED <<clock, nextSweep, pending, bulk, agg, alphaVantageCache, mongo, responses>>

\* everything the module exports that touches the stocks and crypto
\* namespaces, and the sweep, from a due sweep with entries of every age
NextExports ==
  \/ Sweep
  \/ getStockPriceStart
  \/ getStockPriceResume
  \/ getCryptoPriceStart
  \/ getCryptoPriceResume
  \/ getCacheStats
  \/ clearCache

SpecExports == InitSweep /\ [][NextExports]_vars

\* GET /stock/:symbol and GET /crypto/:symbol of routes/historical.js.  In the
\* runs of these routes agg is the record of the history fetches that have
\* succeeded: for each key, the time of the latest one.
HistoryStockSymbols == {"AAPL"}
HistoryCryptoSymbols == {"BTC", "SHIB"}

HistoryAnswer(call, upstream, status, outcome, history) ==
  [fn |-> call.fn, symbol |-> call.symbol, key |-> call.key, now |-> call.now,
   upstream |-> upstream, status |-> status, outcome |-> outcome,
   history |-> history]

\* a history fetch for key succeeded now
RecordFetch(key) == [agg EXCEPT !.fetchedAt = MapSet(@, key, clock)]

\* GET /stock/:symbol up to its Alpha Vantage request: an entry of
\* alphaVantageCache younger than CACHE_DURATION is the answer
historyStockStart ==
  \E symbol \in HistoryStockSymbols :
    LET cacheKey == CacheKey(symbol, Days)
        call == [fn |-> "historyStock", symbol |-> symbol, key |-> cacheKey,
                 now |-> clock]
    IN  IF /\ cacheKey \in DOMAIN alphaVantageCache
           /\ clock - alphaVantageCache[cacheKey].timestamp < CACHE_DURATION
        THEN /\ last' = HistoryAnswer(call, 0, 200, "cached",
                                      alphaVantageCache[cacheKey].data)
             /\ UNCHANGED <<clock, nextSweep, cache, pending, bulk, agg,
                            alphaVantageCache, mongo, responses>>
        ELSE /\ BagCardinality(pending) < MaxCalls
             /\ pending' = pending (+) SetToBag({call})
             /\ last' = None
             /\ UNCHANGED <<clock, nextSweep, cache, bulk, agg, alphaVantageCache, mongo, responses>>

\* the continuation of GET /stock/:symbol after its request: a failure, a
\* Note, an Error Message or a missing series answers an empty history, a
\* series is cached and answered
historyStockResume ==
  \E call \in BagToSet(pending), resp \in AlphaVantageResponses :
    /\ call.fn = "historyStock"
    /\ pending' = pending (-) SetToBag({call})
    /\ IF HistoryFetchFails(resp)
       THEN /\ last' = HistoryAnswer(call, 1, 200, resp.kind, << >>)
            /\ UNCHANGED <<agg, alphaVantageCache>>
       ELSE /\ alphaVantageCache' =
                 MapSet(alphaVantageCache, call.key,
                        [timestamp |-> clock, data |-> resp.series])
            /\ agg' = RecordFetch(call.key)
            /\ last' = HistoryAnswer(call, 1, 200, resp.kind, resp.series)
    /\ UNCHANGED <<clock, nextSweep, cache, bulk, mongo, responses>>

\* GET /crypto/:symbol up to its CoinGecko request: a symbol without a
\* CRYPTO_IDS entry is answered 404
historyCryptoStart ==
  \E symbol \in HistoryCryptoSymbols :
    IF symbol \notin DOMAIN CRYPTO_IDS
    THEN /\ last' = HistoryAnswer([fn |-> "historyCrypto", symbol |-> symbol,
                                   key |-> CacheKey("", Days), now |-> clock],
                                  0, 404, "unmapped", << >>)
         /\ UNCHANGED <<clock, nextSweep, cache, pending, bulk, agg,
                        alphaVantageCache, mongo, responses>>
    ELSE /\ BagCardinality(pending) < MaxCalls
         /\ pending' = pending (+)
               SetToBag({[fn |-> "historyCrypto", symbol |-> symbol,
                          key |-> CacheKey(CRYPTO_IDS[symbol], Days),
                          now |-> clock]})
         /\ last' = None
         /\ UNCHANGED <<clock, nextSweep, cache, bulk, agg, alphaVantageCache, mongo, responses>>

\* the continuation of GET /crypto/:symbol after its request: a failure or an
\* answer without prices answers an empty history, the prices are rounded and
\* answered
historyCryptoResume ==
  \E call \in BagToSet(pending), resp \in MarketChartResponses :
    /\ call.fn = "historyCrypto"
    /\ pending' = pending (-) SetToBag({call})
    /\ IF HistoryFetchFails(resp)
       THEN /\ last' = HistoryAnswer(call, 1, 200, resp.kind, << >>)
            /\ UNCHANGED agg
       ELSE /\ agg' = RecordFetch(call.key)
            /\ last' = HistoryAnswer(call, 1, 200, resp.kind,
                         [i \in 1..Len(resp.series) |->
                            [timestamp |-> resp.series[i].timestamp,
                             price |-> MathRound100(resp.series[i].price)]])
    /\ UNCHANGED <<clock, nextSweep, cache, bulk, alphaVantageCache, mongo, responses>>

InitHistory ==
  /\ clock = 0
  /\ nextSweep = SWEEP_INTERVAL
  /\ cache = [stocks |-> EmptyMap, crypto |-> EmptyMap, search |-> EmptyMap]
  /\ pending = EmptyBag
  /\ mongo = NewAccount
  /\ responses = << >>
  /\ bulk = Idle
  /\ last = None
  /\ agg = [phase |-> "routes", fetchedAt |-> EmptyMap]
  /\ alphaVantageCache = EmptyMap

NextHistory ==
  \/ historyStockStart
  \/ historyStockResume
  \/ historyCryptoStart
  \/ historyCryptoResume
  \/ Sweep
  \/ Tick

SpecHistory == InitHistory /\ [][NextHistory]_vars

\* the ages the entries have when a lookup starts Latency before a sweep:
\* fresh, stale, within Latency of the hard expiry, and beyond it
RaceAges == {0, FRESH_DURATION_CRYPTO, STALE_DURATION - Latency \div 2,
             STALE_DURATION + Step}

\* Latency before the h-th sweep, the stocks and crypto namespaces holding at
\* most one entry each, of any of these ages
InitRace ==
  /\ \E h \in 1..MaxHours : /\ nextSweep = h * SWEEP_INTERVAL
                            /\ clock = nextSweep - Latency
  /\ \E stocks \in OneEntryMaps("AAPL", [data |-> fetchStockPrice("AAPL", [c |-> 1])],
                                {clock - age : age \in {a \in RaceAges : a <= clock}}),
        crypto \in OneEntryMaps("BTC", [data |-> fetchCryptoPrice("btc", [usd |-> 1])],
                                {clock - age : age \in {a \in RaceAges : a <= clock}}) :
       cache = [stocks |-> stocks, crypto |-> crypto, search |-> EmptyMap]
  /\ pending = EmptyBag
  /\ mongo = NewAccount
  /\ responses = << >>
  /\ bulk = Idle
  /\ last = None
  /\ agg = [phase |-> "idle"]
  /\ alphaVantageCache = EmptyMap

\* time advances to the instant of the sweep while lookups await their
\* provider, none of them up to PROVIDER_TIMEOUT
ReachSweep ==
  /\ clock < nextSweep
  /\ nextSweep <= MaxHours * SWEEP_INTERVAL
  /\ \A call \in BagToSet(pending) : nextSweep - call.now < PROVIDER_TIMEOUT
  /\ clock' = nextSweep
  /\ last' = None
  /\ UNCHANGED <<nextSweep, cache, pending, bulk, agg, alphaVantageCache, mongo, responses>>

NextRace ==
  \/ getStockPriceStart
  \/ getStockPriceResume
  \/ getCryptoPriceStart
  \/ getCryptoPriceResume
  \/ ReachSweep
  \/ Sweep

SpecRace == InitRace /\ [][NextRace]_vars

\* the runs in which every entry point of the service is called, at one
\* instant: a stock lookup, a crypto lookup, a search, and a bulk call with a
\* stock symbol and a coin
LiveQueries == {<<"A", "A", "P">>}
LiveBulkRequests == {<<Str("AAPL"), Str("BTC")>>}

NextLive ==
  \/ getStockPriceStart
  \/ getStockPriceResume
  \/ getCryptoPriceStart
  \/ getCryptoPriceResume
  \/ searchRoute(LiveQueries)
  \/ searchSymbolsResume
  \/ getBulkPrices(LiveBulkRequests)
  \/ getBulkPricesStockResume
  \/ getBulkPricesCryptoResume

\* every axios request carries `timeout: 10000`, so each awaited provider call
\* settles: the continuation of a lookup in flight eventually runs
ProviderSettles ==
  /\ WF_vars(getStockPriceResume)
  /\ WF_vars(getCryptoPriceResume)
  /\ WF_vars(searchSymbolsResume)
  /\ WF_vars(getBulkPricesStockResume)
  /\ WF_vars(getBulkPricesCryptoResume)

SpecLive == Init /\ [][NextLive]_vars /\ ProviderSettles

(***************************************************************************)
(* routes/trade.js: POST /buy and POST /sell.  A handler runs between two  *)
(* awaits without interruption, and each await is one database operation,  *)
(* so a step is the code up to an await together with that operation.  The *)
(* handler's local documents (portfolio, holding) travel in pending.       *)
(* avgBuyPrice, currentPrice and the realized P&L are left out: they are   *)
(* written next to quantity and never read by a condition or by the cash   *)
(* arithmetic.  Documents are taken to pass the schemas' field validation. *)
(***************************************************************************)
TradeSymbols == {"AAPL"}

\* req.body.quantity and req.body.price: 2 x 60000 exceeds the starting
\* balance, 1 x 30000 and 2 x 30000 can both be paid out of it
TradeQuantities == {1, 2}

TradePrices == {30000, 60000}

NoHolding == [found |-> FALSE]

\* Holding.findOne({ userId, symbol })
findOneHolding(symbol) ==
  IF symbol \in DOMAIN mongo.holdings
  THEN [found |-> TRUE] @@ mongo.holdings[symbol]
  ELSE NoHolding

\* the document holding.save() or Holding.deleteOne({ _id }) addresses is
\* still in the collection
Stored(holding) ==
  \E symbol \in DOMAIN mongo.holdings : mongo.holdings[symbol].id = holding.id

\* what save() does when its update matches no document: Mongoose 5 and
\* later reject with DocumentNotFoundError, earlier versions resolve
MissingDocumentOutcomes == {"DocumentNotFoundError", "resolved"}

\* the handler goes on to its next await
Proceed(call, next) ==
  pending' = (pending (-) SetToBag({call})) (+) SetToBag({next})

\* res.json(...) or res.status(status).json(...): the handler is over
Respond(call, status) ==
  /\ pending' = pending (-) SetToBag({call})
  /\ responses' = Append(responses, [route |-> call.fn, status |-> status])

\* a request arrives and the handler reaches `await Portfolio.findOne`
tradeFindPortfolio(route) ==
  /\ Len(responses) + BagCardinality(pending) < MaxTrades
  /\ \E symbol \in TradeSymbols, quantity \in TradeQuantities, price \in TradePrices :
       pending' = pending (+)
         SetToBag({[fn |-> route, at |-> "portfolio", symbol |-> symbol,
                    quantity |-> quantity, price |-> price,
                    cashBalance |-> mongo.cashBalance, holding |-> NoHolding]})
  /\ UNCHANGED <<clock, nextSweep, cache, bulk, last, agg, alphaVantageCache,
                 mongo, responses>>

\* POST /buy up to `await Portfolio.findOne({ userId })`
buyFindPortfolio == tradeFindPortfolio("buy")

\* the funds check, `portfolio.cashBalance -= totalCost` and
\* `await portfolio.save()`, which sets the stored cashBalance to the local one
buySavePortfolio ==
  /\ \E call \in BagToSet(pending) :
       /\ call.fn = "buy" /\ call.at = "portfolio"
       /\ LET totalCost == call.quantity * call.price
          IN  IF call.cashBalance < totalCost
              THEN /\ Respond(call, 400)
                   /\ UNCHANGED mongo
              ELSE /\ mongo' = [mongo EXCEPT !.cashBalance = call.cashBalance - totalCost]
                   /\ Proceed(call, [call EXCEPT !.at = "cash",
                                                 !.cashBalance = @ - totalCost])
                   /\ UNCHANGED responses
  /\ UNCHANGED <<clock, nextSweep, cache, bulk, last, agg, alphaVantageCache>>

\* `await Holding.findOne({ userId, symbol })`
buyFindHolding ==
  /\ \E call \in BagToSet(pending) :
       /\ call.fn = "buy" /\ call.at = "cash"
       /\ Proceed(call, [call EXCEPT !.at = "holding",
                                     !.holding = findOneHolding(call.symbol)])
  /\ UNCHANGED <<clock, nextSweep, cache, bulk, last, agg, alphaVantageCache,
                 mongo, responses>>

\* holding.save() of a document read earlier: an update by _id
saveHolding(call, quantity, next) ==
  IF Stored(call.holding)
  THEN /\ mongo' = [mongo EXCEPT !.holdings[call.symbol].quantity = quantity]
       /\ Proceed(call, next)
       /\ UNCHANGED responses
  ELSE \E outcome \in MissingDocumentOutcomes :
         IF outcome = "resolved"
         THEN /\ Proceed(call, next)
              /\ UNCHANGED <<mongo, responses>>
         ELSE /\ Respond(call, 500)
              /\ UNCHANGED mongo

\* the holding is updated or created and `await holding.save()`; the unique
\* index on (userId, symbol) rejects a second document for the symbol
buySaveHolding ==
  /\ \E call \in BagToSet(pending) :
       /\ call.fn = "buy" /\ call.at = "holding"
       /\ IF call.holding.found
          THEN LET totalQuantity == call.holding.quantity + call.quantity
               IN  saveHolding(call, totalQuantity,
                               [call EXCEPT !.at = "saved",
                                            !.holding.quantity = totalQuantity])
          ELSE IF call.symbol \in DOMAIN mongo.holdings
               THEN /\ Respond(call, 500)
                    /\ UNCHANGED mongo
               ELSE LET holding == [id |-> mongo.nextId, quantity |-> call.quantity]
                    IN  /\ mongo' = [mongo EXCEPT
                                       !.holdings = MapSet(@, call.symbol, holding),
                                       !.nextId = @ + 1]
                        /\ Proceed(call, [call EXCEPT
                                            !.at = "saved",
                                            !.holding = [found |-> TRUE] @@ holding])
                        /\ UNCHANGED responses
  /\ UNCHANGED <<clock, nextSweep, cache, bulk, last, agg, alphaVantageCache>>

\* `await transaction.save()` and the response
tradeSaveTransaction(route) ==
  /\ \E call \in BagToSet(pending) :
       /\ call.fn = route /\ call.at = "saved"
       /\ mongo' = [mongo EXCEPT !.transactions =
                      Append(@, [action |-> route, symbol |-> call.symbol,
                                 quantity |-> call.quantity, price |-> call.price,
                                 totalAmount |-> call.quantity * call.price])]
       /\ Respond(call, 200)
  /\ UNCHANGED <<clock, nextSweep, cache, bulk, last, agg, alphaVantageCache>>

buySaveTransaction == tradeSaveTransaction("buy")

\* POST /sell up to `await Portfolio.findOne({ userId })`
sellFindPortfolio == tradeFindPortfolio("sell")

\* `await Holding.findOne({ userId, symbol })`; 404 when there is none
sellFindHolding ==
  /\ \E call \in BagToSet(pending) :
       /\ call.fn = "sell" /\ call.at = "portfolio"
       /\ LET holding == findOneHolding(call.symbol)
          IN  IF holding.found
              THEN /\ Proceed(call, [call EXCEPT !.at = "holding", !.holding = holding])
                   /\ UNCHANGED responses
              ELSE Respond(call, 404)
  /\ UNCHANGED <<clock, nextSweep, cache, bulk, last, agg, alphaVantageCache, mongo>>

\* the shares check, `portfolio.cashBalance += totalSaleAmount` and
\* `await portfolio.save()`
sellSavePortfolio ==
  /\ \E call \in BagToSet(pending) :
       /\ call.fn = "sell" /\ call.at = "holding"
       /\ LET totalSaleAmount == call.quantity * call.price
          IN  IF call.holding.quantity < call.quantity
              THEN /\ Respond(call, 400)
                   /\ UNCHANGED mongo
              ELSE /\ mongo' = [mongo EXCEPT
                                  !.cashBalance = call.cashBalance + totalSaleAmount]
                   /\ Proceed(call, [call EXCEPT !.at = "cash",
                                                 !.cashBalance = @ + totalSaleAmount])
                   /\ UNCHANGED responses
  /\ UNCHANGED <<clock, nextSweep, cache, bulk, last, agg, alphaVantageCache>>

\* `holding.quantity -= quantity`, then Holding.deleteOne({ _id }) when
\* nothing is left and holding.save() otherwise
sellSaveHolding ==
  /\ \E call \in BagToSet(pending) :
       /\ call.fn = "sell" /\ call.at = "cash"
       /\ LET remaining == call.holding.quantity - call.quantity
              next == [call EXCEPT !.at = "saved", !.holding.quantity = remaining]
          IN  IF remaining = 0
              THEN /\ mongo' = [mongo EXCEPT !.holdings =
                                  IF Stored(call.holding)
                                  THEN MapDelete(@, {call.symbol})
                                  ELSE @]
                   /\ Proceed(call, next)
                   /\ UNCHANGED responses
              ELSE saveHolding(call, remaining, next)
  /\ UNCHANGED <<clock, nextSweep, cache, bulk, last, agg, alphaVantageCache>>

sellSaveTransaction == tradeSaveTransaction("sell")

NextTrade ==
  \/ buyFindPortfolio
  \/ buySavePortfolio
  \/ buyFindHolding
  \/ buySaveHolding
  \/ buySaveTransaction
  \/ sellFindPortfolio
  \/ sellFindHolding
  \/ sellSavePortfolio
  \/ sellSaveHolding
  \/ sellSaveTransaction

SpecTrade == Init /\ [][NextTrade]_vars

Next ==
  \/ getStockPriceStart
  \/ getStockPriceResume
  \/ getCryptoPriceStart
  \/ getCryptoPriceResume
  \/ Sweep
  \/ Tick

Spec == Init /\ [][Next]_vars

\* bulk calls with crypto symbols, the sweep and the passage of time
NextBulkCrypto ==
  \/ getBulkPrices(CryptoBulkRequests)
  \/ getBulkPricesStockResume
  \/ getBulkPricesCryptoResume
  \/ Sweep
  \/ BulkTick

SpecBulkCrypto == Init /\ [][NextBulkCrypto]_vars

\* bulk calls with stock symbols and the two POST /bulk routes
NextBulkStocks ==
  \/ getBulkPrices(StockBulkRequests)
  \/ postBulk
  \/ postBulkPlain
  \/ getBulkPricesStockResume
  \/ getBulkPricesCryptoResume
  \/ Sweep
  \/ BulkTick

SpecBulkStocks == Init /\ [][NextBulkStocks]_vars

(***************************************************************************)
(* Properties of the single lookups.                                       *)
(***************************************************************************)
Lookups == {"getStockPrice", "getCryptoPrice"}

\* the durations the claims state: fresh for 5 minutes (stocks) or 10 minutes
\* (crypto), hard expiry after 1 hour
ClaimedFresh(fn) == IF fn = "getStockPrice" THEN 5 * 60 * 1000 ELSE 10 * 60 * 1000
ClaimedHardExpiry == 60 * 60 * 1000

\* the latest step delivered the result of a single lookup
LookupDelivered == last.fn \in Lookups

\* the entry the cache holds now for the key of the delivered lookup
CurrentEntry == MapGet(cache[Namespace(last.fn)], toUpperCase(last.symbol))

C2_StaleOverError ==
  ( /\ LookupDelivered
    /\ last.cached.defined
    /\ ~(last.now - last.cached.timestamp < ClaimedFresh(last.fn))
    /\ last.fetch = "failed"
    /\ last.now - last.cached.timestamp < ClaimedHardExpiry )
  => /\ last.outcome = "return"
     /\ last.value.price = last.cached.data.price
     /\ last.value.symbol = last.cached.data.symbol
     /\ last.value.cached
     /\ last.value.stale

\* a stock lookup answered stale from an entry between fresh and hard expiry
C2_Witness ==
  /\ last.fn = "getStockPrice"
  /\ last.fetch = "failed"
  /\ last.cached.defined
  /\ last.now - last.cached.timestamp >= FRESH_DURATION
  /\ last.value.stale

C4_HardMiss ==
  [][ ( /\ last'.fn \in Lookups
        /\ ~last'.cached.defined
        /\ last'.fetch = "failed"
        /\ pending' # pending )
      => /\ last'.outcome = "throw"
         /\ cache' = cache
         /\ toUpperCase(last'.symbol) \notin DOMAIN cache[Namespace(last'.fn)] =>
              toUpperCase(last'.symbol) \notin DOMAIN cache'[Namespace(last'.fn)]
    ]_vars

\* a lookup raised on a hard miss and the key has no entry
C4_Witness ==
  /\ LookupDelivered
  /\ ~last.cached.defined
  /\ last.fetch = "failed"
  /\ last.outcome = "throw"
  /\ toUpperCase(last.symbol) \notin DOMAIN cache[Namespace(last.fn)]

(***************************************************************************)
(* Properties of getBulkPrices.                                            *)
(***************************************************************************)
\* the latest step delivered the results of a getBulkPrices call
BulkReturned == last.fn = "getBulkPrices" /\ last.outcome = "return"

\* the crypto symbol at position i had a fresh entry when the multi-id request
\* of the delivered call was issued
WasFresh(i) ==
  /\ last.cryptoSnap[i].defined
  /\ last.now - last.cryptoSnap[i].timestamp < ClaimedFresh("getCryptoPrice")

\* C5 (bulk crypto collapse): a getBulkPrices call with N >= 2 crypto symbols,
\* none of them with a fresh entry, issues exactly one upstream multi-id
\* request; a call awaiting that request has issued exactly one.
C5_BulkCryptoCollapse ==
  /\ bulk.phase = "crypto" => bulk.cryptoCalls = 1
  /\ ( /\ BulkReturned
       /\ Cardinality(CryptoPositions(last.items)) >= 2
       /\ \A i \in CryptoPositions(last.items) : ~WasFresh(i) )
     => last.cryptoCalls = 1

\* a call with three crypto symbols and no entry for any was answered by one
\* upstream request
C5_Witness ==
  /\ BulkReturned
  /\ Cardinality(CryptoPositions(last.items)) = 3
  /\ \A i \in CryptoPositions(last.items) : ~last.cryptoSnap[i].defined
  /\ last.cryptoFetch = "ok"
  /\ last.cryptoCalls = 1

\* C6 as stated: when every requested crypto symbol has a fresh entry the
\* bulk call issues no upstream crypto request and answers from the cache.
C6_NoUpstreamWhenAllFresh ==
  ( /\ BulkReturned
    /\ CryptoPositions(last.items) # {}
    /\ \A i \in CryptoPositions(last.items) : WasFresh(i) )
  => /\ last.cryptoCalls = 0
     /\ \A i \in CryptoPositions(last.items) :
          /\ last.results[last.items[i].symbol] # Null
          /\ last.results[last.items[i].symbol].cached

\* C7 (bulk crypto fallback): when the multi-id request fails the call
\* returns; every crypto symbol with a cache entry, of any age, is answered
\* with that entry's value, cached = true and stale = true, every crypto
\* symbol without one maps to null, and the stock results are those the stock
\* lookups produced.
C7_BulkCryptoFallback ==
  last.fn = "getBulkPrices" /\ last.outcome = "return" /\ last.cryptoFetch = "failed" =>
    /\ \A i \in CryptoPositions(last.items) :
         LET entry == MapGet(cache.crypto, toUpperCase(last.items[i].symbol))
             result == last.results[last.items[i].symbol]
         IN  IF entry.defined
             THEN /\ result # Null
                  /\ result.price = entry.data.price
                  /\ result.symbol = entry.data.symbol
                  /\ result.cached
                  /\ result.stale
             ELSE result = Null
    /\ \A i \in StockPositions(last.items) :
         /\ last.items[i].symbol \in DOMAIN last.results
         /\ last.items[i].symbol \in DOMAIN last.afterStocks
         /\ last.results[last.items[i].symbol] = last.afterStocks[last.items[i].symbol]

\* the multi-id request failed; one crypto symbol was answered stale from an
\* entry at least one hour old and the stock of the request kept its quote
C7_Witness ==
  /\ BulkReturned
  /\ last.cryptoFetch = "failed"
  /\ \E i \in CryptoPositions(last.items) :
       /\ last.results[last.items[i].symbol] # Null
       /\ last.results[last.items[i].symbol].stale
       /\ last.results[last.items[i].symbol].cacheAge >= ClaimedHardExpiry \div 1000
  /\ \E i \in CryptoPositions(last.items) : last.results[last.items[i].symbol] = Null
  /\ \E i \in StockPositions(last.items) : last.results[last.items[i].symbol] # Null

\* the stock at position i of the delivered call had no usable cache entry
NoUsableCache(i) ==
  \/ ~last.log[i].cached.defined
  \/ last.now - last.log[i].cached.timestamp >= ClaimedHardExpiry

\* C8 (bulk stock isolation): a getBulkPrices call on symbol strings never
\* raises; every stock symbol whose provider call succeeded maps to the
\* fetched quote, and every stock symbol whose provider call failed with no
\* usable cache entry maps to null.
C8_BulkStockIsolation ==
  last.fn = "getBulkPrices" /\ ~toUpperCaseThrows(last.items) =>
    /\ last.outcome = "return"
    /\ \A i \in StockPositions(last.items) :
         LET result == last.results[last.items[i].symbol]
         IN  /\ last.log[i].fetch = "ok" =>
                  /\ result # Null
                  /\ result.price = last.log[i].c
                  /\ ~result.cached
             /\ last.log[i].fetch = "failed" /\ NoUsableCache(i) => result = Null

\* one stock of the call failed without usable cache and maps to null, another
\* succeeded and maps to its quote
C8_Witness ==
  /\ BulkReturned
  /\ \E i, j \in StockPositions(last.items) :
       /\ last.log[i].fetch = "failed"
       /\ last.results[last.items[i].symbol] = Null
       /\ last.log[j].fetch = "ok"
       /\ last.results[last.items[j].symbol] # Null
       /\ last.results[last.items[j].symbol].price = last.log[j].c

\* C9 as stated: every getBulkPrices call, on the {symbol, type} items the
\* bulk route produces as well, returns a map with an entry for every
\* requested symbol, and the route answers success.
C9_BulkNeverAborts ==
  last.fn = "getBulkPrices" =>
    /\ last.outcome = "return"
    /\ last.via # "direct" => last.status = 200
    /\ \A i \in 1..Len(last.items) : last.items[i].symbol \in DOMAIN last.results

(***************************************************************************)
(* Properties of the portfolio history.                                    *)
(***************************************************************************)
\* the holdings of the request whose series was fetched
Fetched == {i \in 1..Len(agg.holdings) : agg.fetched[i] # NullResult}

\* the timestamps that occur in the series of holding i
TimestampsOf(i) ==
  {agg.fetched[i].prices[k].timestamp : k \in 1..Len(agg.fetched[i].prices)}

\* the value of holding i at timestamp t: price times quantity
ValueAt(i, t) ==
  LET series == agg.fetched[i].prices
      k == CHOOSE k \in 1..Len(series) : series[k].timestamp = t
  IN  series[k].price * agg.holdings[i].quantity

RECURSIVE SumValues(_, _)
SumValues(is, t) ==
  IF is = {} THEN 0
  ELSE LET i == CHOOSE i \in is : TRUE
       IN  ValueAt(i, t) + SumValues(is \ {i}, t)

\* v in thousandths is the value x rounded to 2 decimals: the multiple of 10
\* nearest to x, the upper one of two equally near
IsRounded(v, x) == v % 10 = 0 /\ x - 5 < v /\ v <= x + 5

\* C10 (aggregation merge): the history holds exactly one point per timestamp
\* that occurs in a fetched series, its value is the sum of price times
\* quantity over the holdings whose series has that timestamp, rounded to 2
\* decimals, and the points are in strictly ascending order of timestamp.
C10_AggregationMerge ==
  agg.phase = "done" =>
    LET history == agg.history
        stamps == UNION {TimestampsOf(i) : i \in Fetched}
    IN  /\ {history[k].timestamp : k \in 1..Len(history)} = stamps
        /\ Len(history) = Cardinality(stamps)
        /\ \A k \in 1..Len(history) :
             IsRounded(history[k].price,
                       SumValues({i \in Fetched : history[k].timestamp \in TimestampsOf(i)},
                                 history[k].timestamp))
        /\ \A k, l \in 1..Len(history) :
             k < l => history[k].timestamp < history[l].timestamp

\* two holdings share a timestamp whose summed value rounds up, and a later
\* timestamp occurs in one series only
C10_Witness ==
  /\ agg.phase = "done"
  /\ Len(agg.holdings) = 2
  /\ Fetched = {1, 2}
  /\ TimestampsOf(1) = {2}
  /\ TimestampsOf(2) = {1, 2}
  /\ Len(agg.history) = 2
  /\ agg.history[1].timestamp = 1
  /\ agg.history[2].price = 10
  /\ SumValues({1, 2}, 2) = 5

(***************************************************************************)
(* Properties of the portfolio history requests.                           *)
(***************************************************************************)
\* the outcomes of a fetch that count as a failure of the holding
FailedFetches == {"error", "note", "errorMessage", "noSeries", "noPrices", "unmapped"}

\* the holdings of the answered request whose fetch did not fail
Remaining == {i \in 1..Len(agg.holdings) : agg.log[i] \notin FailedFetches}

\* a request that read a non-empty list of holdings is answered
Answered == agg.phase = "done" /\ agg.find = "ok" /\ Len(agg.holdings) > 0

\* C11 (aggregator failure isolation): a holding whose fetch failed (request
\* error, rate-limit note, error message, missing series, unmapped coin) is
\* excluded, the history is the merge of the remaining holdings, and when all
\* fetches failed the answer is an empty history; the answer is a success in
\* every case.
C11_AggregatorFailureIsolation ==
  Answered =>
    /\ agg.success
    /\ \A i \in 1..Len(agg.holdings) :
         (agg.fetched[i] = NullResult) <=> (i \notin Remaining)
    /\ Remaining = {} => agg.history = << >>
    /\ {agg.history[k].timestamp : k \in 1..Len(agg.history)}
         = UNION {TimestampsOf(i) : i \in Remaining}
    /\ \A k \in 1..Len(agg.history) :
         IsRounded(agg.history[k].price,
                   SumValues({i \in Remaining : agg.history[k].timestamp \in TimestampsOf(i)},
                             agg.history[k].timestamp))

\* of three holdings the unmapped coin and the rate-limited stock are left out
\* and the history is the one of the remaining coin
C11_Witness ==
  /\ Answered
  /\ Len(agg.holdings) = 3
  /\ agg.log[1] = "unmapped"
  /\ agg.log[2] = "note"
  /\ agg.log[3] = "ok"
  /\ Len(agg.history) = MaxTime
  /\ agg.success

\* C12 (empty holdings): a request that reads an empty list of holdings is
\* answered with an empty history, as a success, without a provider call and
\* without a read or write of the history cache.
C12_EmptyHoldings ==
  agg.phase = "done" /\ agg.find = "ok" /\ Len(agg.holdings) = 0 =>
    /\ agg.success
    /\ agg.history = << >>
    /\ agg.calls = 0
    /\ agg.cacheReads = 0
    /\ agg.cacheWrites = 0

\* the crypto request of a user who owns one stock, whose series is cached, was
\* answered with the empty history
C12_Witness ==
  /\ agg.phase = "done"
  /\ agg.find = "ok"
  /\ agg.route = "/crypto-portfolio"
  /\ Len(agg.holdings) = 0
  /\ agg.history = << >>
  /\ DOMAIN alphaVantageCache # {}

(***************************************************************************)
(* Properties of searchSymbols and of the validation of the routes.        *)
(***************************************************************************)
\* needle occurs in hay
Occurs(needle, hay) == \E i, j \in 0..Len(hay) : SubSeq(hay, i + 1, j) = needle

\* the positions of the popular list whose symbol or name contains the query,
\* case-insensitively
PopularMatches(query) ==
  {i \in 1..Len(POPULAR_SEARCH_RESULTS) :
     \/ Occurs(toLowerCase(query), toLowerCase(POPULAR_SEARCH_RESULTS[i].symbol))
     \/ Occurs(toLowerCase(query), toLowerCase(POPULAR_SEARCH_RESULTS[i].name))}

\* results holds the first entries of the popular list that match the query,
\* in the order of that list, at most 10 of them
IsPopularFallback(results, query) ==
  LET matches == PopularMatches(query)
  IN  /\ Len(results) = IF Cardinality(matches) < 10 THEN Cardinality(matches) ELSE 10
      /\ \A k \in 1..Len(results) :
           \E i \in matches :
             /\ Cardinality({j \in matches : j <= i}) = k
             /\ results[k] = POPULAR_SEARCH_RESULTS[i]

\* the search delivered by the latest step had its provider call fail
SearchFailed == last.fn = "searchSymbols" /\ last.fetch = "failed"

\* C13 (search fallback determinism): a search whose provider call fails and
\* that read no cache entry for its lowercased query returns exactly the
\* entries of the popular list whose symbol or name contains the query,
\* case-insensitively, in list order, at most 10, and the step writes nothing
\* to the search cache.
C13_SearchFallback ==
  [][ (last'.fn = "searchSymbols" /\ last'.fetch = "failed" /\ ~last'.cached.defined)
        => /\ IsPopularFallback(last'.results, last'.query)
           /\ cache'.search = cache.search ]_vars

\* the failed search for "inc", whose 15 matches are cut to 10, the first one
\* being Apple Inc.
C13_Witness ==
  /\ SearchFailed
  /\ ~last.cached.defined
  /\ last.query = <<"i", "n", "c">>
  /\ Cardinality(PopularMatches(last.query)) = 15
  /\ Len(last.results) = 10
  /\ last.results[1].symbol = <<"A", "A", "P", "L">>
  /\ last.results[10].symbol = <<"H", "D">>

\* C14 (search stale fallback): a search whose provider call fails and that
\* read a cache entry for its lowercased query returns the results of that
\* entry whatever its age, not the popular list.
C14_SearchStaleFallback ==
  SearchFailed /\ last.cached.defined =>
    /\ last.results = last.cached.results
    /\ last.status = 200

\* a failed search answered from an entry one hour old, whose results are not
\* those of the popular list
C14_Witness ==
  /\ SearchFailed
  /\ last.cached.defined
  /\ last.now - last.cached.timestamp >= ClaimedHardExpiry
  /\ last.results = last.cached.results
  /\ Len(last.results) = 3
  /\ last.results[1].name = "APPLE INC"
  /\ ~IsPopularFallback(last.results, last.query)

\* C15 as stated: a search with a query shorter than 2 characters and a bulk
\* request with an empty or missing symbol list are rejected with a
\* validation error before any provider call and any cache access, so
\* getBulkPrices never runs on behalf of a route with an empty list.
C15_ValidationBeforeWork ==
  /\ last.fn = "getSearch" /\ Len(last.query) < 2 =>
       last.status = 400 /\ last.upstream = 0 /\ last.cacheReads = 0
  /\ last.fn = "postBulk" => last.status = 400
  /\ last.fn = "getBulkPrices" /\ last.via # "direct" => Len(last.items) > 0

(***************************************************************************)
(* Properties of the classification of symbols.                            *)
(***************************************************************************)
\* the symbol has an entry in the provider mapping
Mapped(symbol) == toUpperCase(symbol) \in DOMAIN CRYPTO_MAPPING

\* C16 (unsupported crypto symbols): every key of the crypto cache is a
\* mapped symbol, and every getCryptoPrice call on a symbol without a mapping
\* raises an error, without a provider request.
C16_UnsupportedCrypto ==
  /\ \A key \in DOMAIN cache.crypto : Mapped(key)
  /\ last.fn = "getCryptoPrice" /\ ~Mapped(last.symbol) =>
       last.outcome = "throw" /\ last.upstream = 0

\* getCryptoPrice raised for the unmapped symbol while the crypto cache holds a
\* mapped coin and the stocks cache holds the unmapped symbol
C16_Witness ==
  /\ last.fn = "getCryptoPrice"
  /\ last.symbol = "SHIB"
  /\ last.outcome = "throw"
  /\ "BTC" \in DOMAIN cache.crypto
  /\ "SHIB" \in DOMAIN cache.stocks

\* C18 as stated: every entry point treats a symbol as the class the bulk
\* partition gives it, so no symbol has an entry in both the stocks and the
\* crypto namespace and no lookup sends a symbol to the provider of the other
\* class.
C18_ClassificationConsistency ==
  /\ DOMAIN cache.stocks \cap DOMAIN cache.crypto = {}
  /\ last.fn = "getStockPrice" /\ last.upstream > 0 => ~Mapped(last.symbol)
  /\ last.fn = "getCryptoPrice" /\ last.upstream > 0 => Mapped(last.symbol)

(***************************************************************************)
(* Properties of the cache writes.                                         *)
(***************************************************************************)
\* C17 as stated: a lookup whose refetch succeeds replaces the entry of its
\* key by the fetched value together with the time at the moment of the
\* write, and returns that value with cached = false.
C17_RefetchWritesCurrentTime ==
  [][ (last'.fn \in Lookups /\ last'.fetch = "ok")
        => /\ toUpperCase(last'.symbol) \in DOMAIN cache'[Namespace(last'.fn)]
           /\ cache'[Namespace(last'.fn)][toUpperCase(last'.symbol)]
                = [data |-> [symbol |-> last'.value.symbol, price |-> last'.value.price],
                   timestamp |-> clock']
           /\ ~last'.value.cached ]_vars

\* C19 as stated: every alias of a base ticker resolves to a provider coin
\* id, the one of its base ticker, in the quote service and in the history
\* aggregator alike.
C19_AliasRoundTrip ==
  last.fn \in {"fetchCryptoPrice", "portfolioHistory"} /\ agg.phase = "alias" =>
    /\ last.coinId # ""
    /\ last.coinId = last.baseCoinId

(***************************************************************************)
(* Properties of the sweep.                                                *)
(***************************************************************************)
\* C20 (sweep): a run of the sweep removes from every namespace exactly the
\* entries whose age exceeds the hard-expiry duration and leaves every other
\* entry, the stale ones included, as it was; a lookup that read an entry of
\* an age from the fresh duration up to the hard-expiry duration and whose
\* refetch fails is answered with that entry.
C20_SweepRemovesExpiredOnly ==
  /\ [][ nextSweep' # nextSweep =>
           \A ns \in {"stocks", "crypto", "search"} :
             /\ DOMAIN cache'[ns] =
                  {k \in DOMAIN cache[ns] :
                     ~(clock - cache[ns][k].timestamp > ClaimedHardExpiry)}
             /\ \A k \in DOMAIN cache'[ns] : cache'[ns][k] = cache[ns][k] ]_vars
  /\ [] ( ( /\ last.fn \in Lookups
            /\ last.fetch = "failed"
            /\ last.cached.defined
            /\ last.now - last.cached.timestamp >= ClaimedFresh(last.fn)
            /\ last.now - last.cached.timestamp < ClaimedHardExpiry )
          => /\ last.outcome = "return"
             /\ last.value.stale
             /\ last.value.price = last.cached.data.price )

\* after the second run of the sweep, which emptied the crypto namespace and
\* kept the search entry of exactly one hour, the stale stock entry is still
\* in the cache and has answered a lookup whose refetch failed
C20_Witness ==
  /\ nextSweep = clock + SWEEP_INTERVAL
  /\ clock = 2 * SWEEP_INTERVAL
  /\ "AAPL" \in DOMAIN cache.stocks
  /\ clock - cache.stocks["AAPL"].timestamp = FRESH_DURATION
  /\ DOMAIN cache.crypto = {}
  /\ DOMAIN cache.search # {}
  /\ clock - cache.search[<<"a", "a", "p">>].timestamp = ClaimedHardExpiry
  /\ last.fn = "getStockPrice"
  /\ last.now = clock
  /\ last.fetch = "failed"
  /\ last.value.stale

(***************************************************************************)
(* Properties of the operations the service exposes.                       *)
(***************************************************************************)
\* C21 as stated: a step that removes a key from a namespace of the cache is
\* a run of the sweep; every other operation of the service only adds or
\* replaces entries.
C21_OnlySweepDeletes ==
  [][ (\E ns \in DOMAIN cache : ~(DOMAIN cache[ns] \subseteq DOMAIN cache'[ns]))
        => nextSweep' # nextSweep ]_vars

(***************************************************************************)
(* Properties of the history routes.                                       *)
(***************************************************************************)
\* the cache window of the history of an asset
ClaimedHistoryWindow == 60 * 60 * 1000

\* C22 as stated: no provider call is issued for the history of a key (stock
\* symbol and days, or coin id and days) whose history was fetched
\* successfully less than the cache window ago, for stocks and coins alike.
C22_HistoryCaching ==
  [][ \A call \in BagToSet(pending') :
        CopiesIn(call, pending') > CopiesIn(call, pending) =>
          ~ ( /\ call.key \in DOMAIN agg.fetchedAt
              /\ clock - agg.fetchedAt[call.key] < ClaimedHistoryWindow ) ]_vars

\* the fixed delay between successive provider calls of one aggregation
ClaimedDelay(route) == IF route = "/crypto-portfolio" THEN 300 ELSE 200

\* C23 as stated: in one portfolio history aggregation, the provider calls of
\* any two holdings are issued at least the fixed delay of the route apart
\* (200 ms, 300 ms in the crypto-only route), hence never at the same instant.
C23_RateLimitCourtesy ==
  "issuedAt" \in DOMAIN agg =>
    \A i, j \in 1..Len(agg.holdings) :
      (i < j /\ agg.issuedAt[i] >= 0 /\ agg.issuedAt[j] >= 0) =>
        \/ agg.issuedAt[j] - agg.issuedAt[i] >= ClaimedDelay(agg.route)
        \/ agg.issuedAt[i] - agg.issuedAt[j] >= ClaimedDelay(agg.route)

(***************************************************************************)
(* Properties of the adapters.                                             *)
(***************************************************************************)
\* C24 as stated: no entry of the stocks or crypto namespace and no quote
\* returned by a lookup has a price of zero; a provider answer with a zero
\* price is a failed fetch.
C24_SentinelNeverEscapes ==
  /\ \A ns \in {"stocks", "crypto"} :
       \A k \in DOMAIN cache[ns] : cache[ns][k].data.price # 0
  /\ (last.fn \in Lookups /\ last.outcome = "return") => last.value.price # 0

(***************************************************************************)
(* Properties of overlapping lookups.                                      *)
(***************************************************************************)
\* the namespace of the entries a lookup writes
ClaimedNamespace(fn) == IF fn = "getStockPrice" THEN "stocks" ELSE "crypto"

\* C25 (last write wins): the step in which a lookup's refetch succeeds
\* replaces the entry of its key, in one step, by the value it fetched,
\* whatever entry an overlapping lookup of the same key wrote meanwhile and
\* even when that entry is the more recent one; the entries of every other
\* key and namespace stay as they were.
C25_LastWriteWins ==
  [][ (last'.fn \in Lookups /\ last'.fetch = "ok") =>
        LET ns == ClaimedNamespace(last'.fn)
            key == toUpperCase(last'.symbol)
        IN  /\ DOMAIN cache'[ns] = DOMAIN cache[ns] \cup {key}
            /\ cache'[ns][key].data =
                 [symbol |-> last'.value.symbol, price |-> last'.value.price]
            /\ cache'[ns][key].timestamp = last'.now
            /\ \A k \in DOMAIN cache[ns] \ {key} : cache'[ns][k] = cache[ns][k]
            /\ \A other \in DOMAIN cache \ {ns} : cache'[other] = cache[other] ]_vars

\* two lookups of AAPL overlap: the one that started later has completed and
\* written its entry, the one that started earlier still awaits its provider
C25_Witness ==
  /\ last.fn = "getStockPrice"
  /\ last.fetch = "ok"
  /\ last.now = Latency
  /\ cache.stocks["AAPL"].timestamp = Latency
  /\ \E call \in BagToSet(pending) :
       /\ call.fn = "getStockPrice"
       /\ toUpperCase(call.symbol) = "AAPL"
       /\ call.now < cache.stocks["AAPL"].timestamp

(***************************************************************************)
(* Properties of the sweep against lookups in flight.                      *)
(***************************************************************************)
\* C26 (sweep against a lookup in flight): a run of the sweep adds no entry
\* and leaves every entry it keeps as it was; a lookup that read an entry
\* and then awaited its provider returns, whether or not the sweep deleted
\* that entry meanwhile, the fetched value with cached = false when the fetch
\* succeeds, and the value it read with cached = true and stale = true when
\* the fetch fails and the entry was younger than the hard expiry at the read.
C26_SweepAgainstInFlightRead ==
  /\ [][ nextSweep' # nextSweep =>
           \A ns \in DOMAIN cache :
             /\ DOMAIN cache'[ns] \subseteq DOMAIN cache[ns]
             /\ \A k \in DOMAIN cache'[ns] : cache'[ns][k] = cache[ns][k] ]_vars
  /\ [] ( (last.fn \in Lookups /\ last.cached.defined /\ last.upstream = 1) =>
            /\ last.fetch = "ok" =>
                 /\ last.outcome = "return"
                 /\ ~last.value.cached
                 /\ ~last.value.stale
                 /\ last.value.symbol = toUpperCase(last.symbol)
                 /\ LET entry == MapGet(cache[ClaimedNamespace(last.fn)],
                                         toUpperCase(last.symbol))
                    IN  /\ entry.defined
                        /\ entry.data.price = last.value.price
            /\ (last.fetch = "failed"
                  /\ last.now - last.cached.timestamp < ClaimedHardExpiry) =>
                 /\ last.outcome = "return"
                 /\ last.value.cached
                 /\ last.value.stale
                 /\ last.value.symbol = last.cached.data.symbol
                 /\ last.value.price = last.cached.data.price
                 /\ last.value.cacheAge =
                      (last.now - last.cached.timestamp) \div 1000 )

\* the sweep has deleted the entry of AAPL, read Latency earlier at an age
\* below the hard expiry by a lookup whose refetch then failed: the lookup
\* returned the value it had read
C26_Witness ==
  /\ clock + SWEEP_INTERVAL = nextSweep
  /\ "AAPL" \notin DOMAIN cache.stocks
  /\ last.fn = "getStockPrice"
  /\ last.now = clock - Latency
  /\ last.cached.defined
  /\ last.now - last.cached.timestamp < ClaimedHardExpiry
  /\ clock - last.cached.timestamp > ClaimedHardExpiry
  /\ last.fetch = "failed"
  /\ last.outcome = "return"
  /\ last.value.stale

(***************************************************************************)
(* Termination of the lookups.                                             *)
(***************************************************************************)
\* a lookup of symbol by fn awaits its provider
Awaited(fn, symbol) ==
  \E call \in BagToSet(pending) : call.fn = fn /\ call.symbol = symbol

\* C27 (termination): every getStockPrice, getCryptoPrice and searchSymbols
\* call that awaits its provider eventually returns a value or throws, and
\* every getBulkPrices call in progress eventually returns, given that every
\* provider call eventually answers or times out.
C27_EveryLookupTerminates ==
  /\ Awaited("getStockPrice", "AAPL") ~>
       ( /\ last.fn = "getStockPrice" /\ last.symbol = "AAPL"
         /\ last.fetch # "none"
         /\ last.outcome \in {"return", "throw"} )
  /\ Awaited("getCryptoPrice", "btc") ~>
       ( /\ last.fn = "getCryptoPrice" /\ last.symbol = "btc"
         /\ last.fetch # "none"
         /\ last.outcome \in {"return", "throw"} )
  /\ (\E call \in BagToSet(pending) :
        call.fn = "searchSymbols" /\ call.query = <<"A", "A", "P">>) ~>
       ( /\ last.fn = "searchSymbols" /\ last.query = <<"A", "A", "P">>
         /\ last.fetch # "none"
         /\ last.outcome = "return" )
  /\ (bulk.phase # "idle") ~>
       ( /\ bulk.phase = "idle"
         /\ last.fn = "getBulkPrices"
         /\ last.outcome \in {"return", "throw"} )

\* a bulk call has returned after its stock lookup and its multi-id request
\* both failed, while a search awaits its provider
C27_Witness ==
  /\ bulk.phase = "idle"
  /\ last.fn = "getBulkPrices"
  /\ last.outcome = "return"
  /\ last.cryptoFetch = "failed"
  /\ \E i \in DOMAIN last.log : last.log[i].fetch = "failed"
  /\ \E call \in BagToSet(pending) : call.fn = "searchSymbols"

(***************************************************************************)
(* Properties of failed provider calls.                                    *)
(***************************************************************************)
\* C28 as stated: the step in which a lookup's provider call ends in a
\* failure (the request failed or timed out, or the answer carries a zero
\* price) changes no key, value or timestamp of any cache.
C28_FailedCallLeavesCaches ==
  [][ ( /\ last'.fn \in Lookups
        /\ last'.upstream = 1
        /\ (last'.fetch = "failed" \/ last'.value.price = 0) )
      => /\ cache' = cache
         /\ alphaVantageCache' = alphaVantageCache ]_vars

(***************************************************************************)
(* Properties of the null results of getBulkPrices.                        *)
(***************************************************************************)
\* C29 as stated: in the map a getBulkPrices call returns, a requested symbol
\* maps to null only when the cache, at the time the map is returned, holds
\* no entry for it in the namespace of its class.
C29_NullOnlyWithoutCache ==
  (last.fn = "getBulkPrices" /\ last.outcome = "return") =>
    \A i \in 1..Len(last.items) :
      last.results[last.items[i].symbol] = Null =>
        LET ns == IF i \in CryptoPositions(last.items) THEN "crypto" ELSE "stocks"
        IN  toUpperCase(last.items[i].symbol) \notin DOMAIN cache[ns]

(***************************************************************************)
(* C30: cash conservation under interleaving.  For one user, once every    *)
(* concurrently handled buy and sell request has completed successfully,   *)
(* cashBalance is the starting balance minus the totals of the buys plus   *)
(* the totals of the sells, and cashBalance is never negative.             *)
(***************************************************************************)
RECURSIVE Traded(_, _)
Traded(transactions, action) ==
  IF transactions = << >>
  THEN 0
  ELSE (IF Head(transactions).action = action
        THEN Head(transactions).quantity * Head(transactions).price
        ELSE 0) + Traded(Tail(transactions), action)

====
